---- MODULE Spec2Model ----
(***************************************************************************)
(* The grid combat simulator of src/bin/task29.rs: Board (grid + unit      *)
(* registry), the pathfinder (distance_to_closest_unit and                 *)
(* find_enemy_direction) and the turn engine (Game::progress).             *)
(***************************************************************************)
EXTENDS Integers, Sequences, FiniteSets, TLC

VARIABLES
    bytes,            \* main's input buffer `board: Vec<u8>`, one string per byte
    power,            \* the elven power the Game was constructed with
    board,            \* Game.board: [size, map, units]
    to_be_moved,      \* Game.to_be_moved: Vec<Point>, popped from its end
    completed_turns,  \* Game.completed_turns
    defeated_elves,   \* Game.defeated_elves
    state,            \* what the last progress() returned: "Going", "Over", or "Panic"
    turn,             \* history: what the last progress() did
    round,            \* history: the turns taken in the round under way
    prev_round,       \* history: the last round that was completed
    query,            \* the arguments of the call last made of the function
                      \* followed: the start point of find_enemy_direction
    answer,           \* what that call returned
    output,           \* the lines main has printed
    probes,           \* history: the runs main has finished, in order
    search,           \* the loop of a distance_to_closest_unit call under way
    hashed            \* history: the key units.keys() yielded first when the
                      \* queue was last built from an iteration of the registry

vars == <<bytes, power, board, to_be_moved, completed_turns, defeated_elves,
          state, turn, round, prev_round, query, answer, output, probes,
          search, hashed>>

-----------------------------------------------------------------------------
(* Option<T> *)
None == <<>>
Some(v) == <<v>>

(* enum Tile, enum Team: the byte each stands for *)
Empty == "."
Wall == "#"
Gnome == "G"
Elf == "E"

is_team(tile, team) == (tile = Gnome /\ team = Gnome) \/ (tile = Elf /\ team = Elf)

enemy(team) == IF team = Elf THEN Gnome ELSE Elf

(* The directions yielded clockwise from Up *)
directions_clockwise == <<"Up", "Right", "Down", "Left">>

(* enum Direction, in the order the Directions iterator yields *)
directions == <<"Up", "Left", "Right", "Down">>

(* struct Point { y, x } *)
Point(x, y) == [y |-> y, x |-> x]

(* #[derive(PartialOrd, Ord)] on Point: fields compared in declaration order, y then x *)
PointLess(p, q) == p.y < q.y \/ (p.y = q.y /\ p.x < q.x)

step(p, dir) ==
    CASE dir = "Up" -> Point(p.x, p.y - 1)
      [] dir = "Left" -> Point(p.x - 1, p.y)
      [] dir = "Right" -> Point(p.x + 1, p.y)
      [] dir = "Down" -> Point(p.x, p.y + 1)

(* Neighbors: the four steps from center, in the order of directions *)
neighbors(center) == [i \in 1..4 |-> step(center, directions[i])]

NeighborSet(center) == {neighbors(center)[i] : i \in 1..4}

(* struct Unit *)
Unit(team, hp, attack) == [team |-> team, hp |-> hp, attack |-> attack]

(* u8::wrapping_sub, were it used for the damage *)
wrapping_sub(a, b) == (a - b) % 256

(* u8::saturating_sub *)
saturating_sub(a, b) == IF a - b < 0 THEN 0 ELSE a - b

(* take_damage with a subtraction that wraps around *)
take_damage_wrapping(unit, hp) == [unit EXCEPT !.hp = (unit.hp - hp) % 256]

take_damage(unit, hp) == [unit EXCEPT !.hp = saturating_sub(unit.hp, hp)]

(* A unit never counted as defeated *)
never_defeated(unit) == FALSE

is_defeated(unit) == unit.hp = 0

-----------------------------------------------------------------------------
(* Board::with_elven_power: one pass over the bytes *)
ParseStart == [ok |-> TRUE, map |-> <<>>, pos |-> Point(0, 0),
               units |-> <<>>, size |-> Point(0, 0)]

(* ParseByte with the power given to the units of both teams *)
ParseByteBothBoosted(acc, b, pw) ==
    LET right == [acc.pos EXCEPT !.x = acc.pos.x + 1] IN
    IF b = "." THEN [acc EXCEPT !.map = Append(@, Empty), !.pos = right]
    ELSE IF b = "#" THEN [acc EXCEPT !.map = Append(@, Wall), !.pos = right]
    ELSE IF b = "G" THEN
        [acc EXCEPT !.map = Append(@, Gnome), !.pos = right,
                    !.units = (acc.pos :> Unit(Gnome, 200, pw)) @@ @]
    ELSE IF b = "E" THEN
        [acc EXCEPT !.map = Append(@, Elf), !.pos = right,
                    !.units = (acc.pos :> Unit(Elf, 200, pw)) @@ @]
    ELSE IF b = "\n" THEN
        [acc EXCEPT !.size = acc.pos, !.pos = Point(0, acc.pos.y + 1)]
    ELSE [acc EXCEPT !.ok = FALSE]

ParseByte(acc, b, pw) ==
    LET right == [acc.pos EXCEPT !.x = acc.pos.x + 1] IN
    IF b = "." THEN [acc EXCEPT !.map = Append(@, Empty), !.pos = right]
    ELSE IF b = "#" THEN [acc EXCEPT !.map = Append(@, Wall), !.pos = right]
    ELSE IF b = "G" THEN
        [acc EXCEPT !.map = Append(@, Gnome), !.pos = right,
                    !.units = (acc.pos :> Unit(Gnome, 200, 3)) @@ @]
    ELSE IF b = "E" THEN
        [acc EXCEPT !.map = Append(@, Elf), !.pos = right,
                    !.units = (acc.pos :> Unit(Elf, 200, pw)) @@ @]
    ELSE IF b = "\n" THEN
        [acc EXCEPT !.size = acc.pos, !.pos = Point(0, acc.pos.y + 1)]
    ELSE [acc EXCEPT !.ok = FALSE]

(* The loop `for b in bytes`: ParseByte folded over bytes lo..hi, left to right; *)
(* the panic on an unknown byte ends the loop.                                  *)
RECURSIVE ParseFrom(_, _, _, _, _)
ParseFrom(bs, lo, hi, acc, pw) ==
    IF ~acc.ok \/ lo > hi THEN acc
    ELSE IF lo = hi THEN ParseByte(acc, bs[lo], pw)
    ELSE LET mid == (lo + hi) \div 2 IN
         ParseFrom(bs, mid + 1, hi, ParseFrom(bs, lo, mid, acc, pw), pw)

with_elven_power(bs, pw) ==
    LET acc == ParseFrom(bs, 1, Len(bs), ParseStart, pw) IN
    [ok |-> acc.ok, size |-> acc.size, map |-> acc.map, units |-> acc.units]

bounds_check(b, p) == p.x >= 0 /\ p.y >= 0 /\ p.x < b.size.x /\ p.y < b.size.y

index_of_point(b, p) == (p.y * b.size.x) + p.x

(* Board::get: None out of bounds, else the tile at the point's index *)
get(b, p) == IF bounds_check(b, p) THEN Some(b.map[index_of_point(b, p) + 1]) ELSE None

(* Board::get_mut followed by a write of the tile *)
set(b, p, tile) == [b EXCEPT !.map[index_of_point(b, p) + 1] = tile]

RECURSIVE SumHp(_, _)
SumHp(units, ps) ==
    IF ps = {} THEN 0
    ELSE LET p == CHOOSE q \in ps : TRUE IN units[p].hp + SumHp(units, ps \ {p})

total_hp(b) == SumHp(b.units, DOMAIN b.units)

(* Iterator::any where team_won has Iterator::all *)
team_won_any(b, winner) == \E p \in DOMAIN b.units : b.units[p].team = winner

team_won(b, winner) == \A p \in DOMAIN b.units : b.units[p].team = winner

-----------------------------------------------------------------------------
(* Board::distance_to_closest_unit *)

(* The point with the least key (point), the distance left out of the key *)
MinOpenByPoint(open) ==
    CHOOSE p \in DOMAIN open : \A q \in DOMAIN open : p = q \/ PointLess(p, q)

(* open.iter().min_by_key(|(point, dist)| (dist, point)) *)
MinOpen(open) ==
    CHOOSE p \in DOMAIN open : \A q \in DOMAIN open :
        open[p] < open[q] \/ (open[p] = open[q] /\ (p = q \/ PointLess(p, q)))

HasGoalNeighbor(b, current, goal) ==
    \E n \in NeighborSet(current) : get(b, n) # None /\ is_team(get(b, n)[1], goal)

RECURSIVE SearchLoop(_, _, _, _)
SearchLoop(b, goal, open, visited) ==
    IF DOMAIN open = {} THEN None
    ELSE
        LET current == MinOpen(open)
            dist == open[current]
        IN  IF HasGoalNeighbor(b, current, goal) THEN Some(dist + 1)
            ELSE
                LET seen == visited \cup {current}
                    rest == DOMAIN open \ {current}
                    fresh == {n \in NeighborSet(current) :
                                 n \notin seen /\ get(b, n) = Some(Empty)}
                    next_open == [p \in rest \cup fresh |->
                        IF p \notin rest THEN dist + 1
                        ELSE IF p \in fresh /\ dist + 1 < open[p] THEN dist + 1
                        ELSE open[p]]
                IN  SearchLoop(b, goal, next_open, seen)

(* The search without the short circuit for a start that holds a goal unit *)
distance_from_neighbors(b, start, goal) == SearchLoop(b, goal, (start :> 0), {})

distance_to_closest_unit(b, start, goal) ==
    IF is_team(get(b, start)[1], goal) THEN Some(0)
    ELSE SearchLoop(b, goal, (start :> 0), {})

(* filter_map(|(dir, p, _)| distance_to_closest_unit(p, enemy).map(..)): the    *)
(* candidate (dir, dist) put before the later ones, or dropped when d is None.  *)
with_distance(dir, d, tail) ==
    IF d = None THEN tail ELSE <<[dir |-> dir, dist |-> d[1]]>> \o tail

(* The filters without `tile != Tile::Wall`: a wall's cell is a candidate too *)
candidate_walls_passed(b, team, dir, p, tile, tail) ==
    IF tile = None THEN tail
    ELSE IF is_team(tile[1], team) THEN tail
    ELSE with_distance(dir, distance_to_closest_unit(b, p, enemy(team)), tail)

(* The two filters on the tile of a direction's cell, then the distance *)
candidate(b, team, dir, p, tile, tail) ==
    IF tile = None THEN tail
    ELSE IF tile[1] = Wall \/ is_team(tile[1], team) THEN tail
    ELSE with_distance(dir, distance_to_closest_unit(b, p, enemy(team)), tail)

(* The candidates find_enemy_direction ranks: (dir, dist) for every direction *)
(* whose cell is on the board, is no wall and no team-mate, and from which an *)
(* enemy is reachable; in the order of directions.                           *)
RECURSIVE Candidates(_, _, _, _)
Candidates(b, start, team, i) ==
    IF i > 4 THEN <<>>
    ELSE candidate(b, team, directions[i], step(start, directions[i]),
                   get(b, step(start, directions[i])),
                   Candidates(b, start, team, i + 1))

(* The last of the minimal elements, as Iterator::max_by_key breaks its ties *)
min_by_key_last(cands) ==
    IF cands = <<>> THEN None
    ELSE LET i == CHOOSE i \in 1..Len(cands) :
                    /\ \A j \in 1..Len(cands) : cands[i].dist <= cands[j].dist
                    /\ \A j \in (i + 1)..Len(cands) : cands[j].dist > cands[i].dist
         IN  Some(cands[i])

(* Iterator::min_by_key(|(_, dist)| dist): the first of the minimal elements *)
min_by_key_dist(cands) ==
    IF cands = <<>> THEN None
    ELSE LET i == CHOOSE i \in 1..Len(cands) :
                    /\ \A j \in 1..Len(cands) : cands[i].dist <= cands[j].dist
                    /\ \A j \in 1..(i - 1) : cands[j].dist > cands[i].dist
         IN  Some(cands[i])

(* The best direction whatever its distance *)
as_some_dir_any(best) ==
    IF best = None THEN None ELSE Some(best[1].dir)

(* and_then(|(dir, dist)| (dist > 0).as_some(dir)) *)
as_some_dir(best) ==
    IF best = None THEN None
    ELSE IF best[1].dist > 0 THEN Some(best[1].dir) ELSE None

find_enemy_direction(b, start) ==
    as_some_dir(min_by_key_dist(Candidates(b, start, b.units[start].team, 1)))

-----------------------------------------------------------------------------
(* move_unit without the write of Tile::Empty to the tile left behind *)
move_unit_keep_tile(b, pos, dir) ==
    LET goal == step(pos, dir) IN
    IF pos \notin DOMAIN b.units \/ get(b, pos) = None \/ get(b, goal) # Some(Empty)
    THEN [ok |-> FALSE, board |-> b, goal |-> goal]
    ELSE [ok |-> TRUE, goal |-> goal,
          board |-> set([b EXCEPT !.units =
                            (goal :> b.units[pos]) @@
                            [q \in DOMAIN b.units \ {pos} |-> b.units[q]]],
                        goal, get(b, pos)[1])]

(* move_unit with the unit inserted at its goal and its old entry not removed *)
move_unit_copy(b, pos, dir) ==
    LET goal == step(pos, dir) IN
    IF pos \notin DOMAIN b.units \/ get(b, pos) = None \/ get(b, goal) # Some(Empty)
    THEN [ok |-> FALSE, board |-> b, goal |-> goal]
    ELSE [ok |-> TRUE, goal |-> goal,
          board |-> set(set([b EXCEPT !.units = (goal :> b.units[pos]) @@ b.units],
                            pos, Empty),
                        goal, get(b, pos)[1])]

(* Board::move_unit: the registry entry and both tiles; ok is FALSE where the *)
(* code panics (expect, assert!, panic!).                                     *)
move_unit(b, pos, dir) ==
    LET goal == step(pos, dir) IN
    IF pos \notin DOMAIN b.units THEN [ok |-> FALSE, board |-> b, goal |-> goal]
    ELSE
        LET unit == b.units[pos]
            removed == [q \in DOMAIN b.units \ {pos} |-> b.units[q]]
            old_tile == get(b, pos)
        IN  IF old_tile = None \/ ~is_team(old_tile[1], unit.team)
            THEN [ok |-> FALSE, board |-> b, goal |-> goal]
            ELSE
                LET cleared == set([b EXCEPT !.units = removed], pos, Empty)
                    placed == [cleared EXCEPT !.units = (goal :> unit) @@ removed]
                IN  IF get(placed, goal) = Some(Empty)
                    THEN [ok |-> TRUE, board |-> set(placed, goal, old_tile[1]),
                          goal |-> goal]
                    ELSE [ok |-> FALSE, board |-> placed, goal |-> goal]

(* Board::attack with the damage read from the attacked unit's own attack *)
attack_by_attacked(b, attacker, attacked) ==
    IF attacker \notin DOMAIN b.units \/ attacked \notin DOMAIN b.units
    THEN [ok |-> FALSE, board |-> b, defeated |-> None]
    ELSE
        LET damage == b.units[attacked].attack
            unit == take_damage(b.units[attacked], damage)
            hit == [b EXCEPT !.units[attacked] = unit]
            gone == [b EXCEPT !.units =
                        [q \in DOMAIN b.units \ {attacked} |-> b.units[q]]]
        IN  IF ~is_defeated(unit) THEN [ok |-> TRUE, board |-> hit, defeated |-> None]
            ELSE [ok |-> TRUE, board |-> set(gone, attacked, Empty),
                  defeated |-> Some(unit)]

(* Board::attack: defeated is Some(unit) when the attacked unit was removed *)
attack(b, attacker, attacked) ==
    IF attacker \notin DOMAIN b.units \/ attacked \notin DOMAIN b.units
    THEN [ok |-> FALSE, board |-> b, defeated |-> None]
    ELSE
        LET damage == b.units[attacker].attack
            unit == take_damage(b.units[attacked], damage)
            hit == [b EXCEPT !.units[attacked] = unit]
        IN  IF ~is_defeated(unit) THEN [ok |-> TRUE, board |-> hit, defeated |-> None]
            ELSE
                LET gone == [b EXCEPT !.units =
                                [q \in DOMAIN b.units \ {attacked} |-> b.units[q]]]
                    tile == get(gone, attacked)
                IN  IF tile = None \/ ~is_team(tile[1], unit.team)
                    THEN [ok |-> FALSE, board |-> gone, defeated |-> Some(unit)]
                    ELSE [ok |-> TRUE, board |-> set(gone, attacked, Empty),
                          defeated |-> Some(unit)]

-----------------------------------------------------------------------------
(* sort_by_key(|p| p): least first, the Reverse forgotten *)
RECURSIVE sort_by_key(_)
sort_by_key(ps) ==
    IF ps = {} THEN <<>>
    ELSE LET low == CHOOSE p \in ps : \A q \in ps : q = p \/ PointLess(p, q)
         IN  <<low>> \o sort_by_key(ps \ {low})

(* units.keys().collect() then sort_by_key(|p| Reverse(p)): greatest first, so *)
(* that Vec::pop takes the reading-order-least point.                          *)
RECURSIVE sort_by_key_reverse(_)
sort_by_key_reverse(ps) ==
    IF ps = {} THEN <<>>
    ELSE LET top == CHOOSE p \in ps : \A q \in ps : q = p \/ PointLess(q, p)
         IN  <<top>> \o sort_by_key_reverse(ps \ {top})

(* impl From<Board> for Game *)
from_board(b) ==
    [completed_turns |-> 0, to_be_moved |-> sort_by_key_reverse(DOMAIN b.units),
     board |-> b, defeated_elves |-> 0]

(* start_new_turn counting the round twice *)
start_new_turn_twice(g) ==
    LET queue == sort_by_key_reverse(DOMAIN g.board.units) IN
    [ok |-> queue # <<>>,
     game |-> [g EXCEPT !.completed_turns = g.completed_turns + 2,
                        !.to_be_moved = queue]]

(* Game::start_new_turn; ok is FALSE when its assert! fails *)
start_new_turn(g) ==
    LET queue == sort_by_key_reverse(DOMAIN g.board.units) IN
    [ok |-> queue # <<>>,
     game |-> [g EXCEPT !.completed_turns = g.completed_turns + 1,
                        !.to_be_moved = queue]]

(* binary_search_by_key(&target, |p| p): the Reverse of the keys forgotten *)
RECURSIVE binary_search_ascending(_, _, _, _)
binary_search_ascending(queue, target, lo, hi) ==
    IF lo >= hi THEN None
    ELSE LET mid == lo + ((hi - lo) \div 2) IN
         IF queue[mid + 1] = target THEN Some(mid)
         ELSE IF PointLess(queue[mid + 1], target)
              THEN binary_search_ascending(queue, target, mid + 1, hi)
              ELSE binary_search_ascending(queue, target, lo, mid)

(* slice::binary_search_by_key(&Reverse(target), |p| Reverse(p)) over lo..hi *)
RECURSIVE binary_search(_, _, _, _)
binary_search(queue, target, lo, hi) ==
    IF lo >= hi THEN None
    ELSE LET mid == lo + ((hi - lo) \div 2) IN
         IF queue[mid + 1] = target THEN Some(mid)
         ELSE IF PointLess(target, queue[mid + 1])
              THEN binary_search(queue, target, mid + 1, hi)
              ELSE binary_search(queue, target, lo, mid)

(* Vec::remove(0) whatever the index found *)
remove_first(queue, index) == Tail(queue)

(* Vec::remove(index), index counted from 0 *)
remove_at(queue, index) ==
    [i \in 1..(Len(queue) - 1) |-> IF i <= index THEN queue[i] ELSE queue[i + 1]]

(* The queue after a defeat, the defeated unit's entry left in it *)
keep_defeated(queue, attacked) == queue

(* The queue after a defeat: the defeated unit's entry, if it has one, removed *)
remove_defeated(queue, attacked) ==
    LET found == binary_search(queue, attacked, 0, Len(queue)) IN
    IF found = None THEN queue ELSE remove_at(queue, found[1])

(* The adjacent unit with the least (hp, point), of whatever team *)
select_target_any_team(b, this_pos, enemy_team) ==
    LET adjacent == {q \in NeighborSet(this_pos) : q \in DOMAIN b.units}
    IN  IF adjacent = {} THEN None
        ELSE Some(CHOOSE p \in adjacent : \A q \in adjacent :
                    \/ b.units[p].hp < b.units[q].hp
                    \/ (b.units[p].hp = b.units[q].hp /\ (p = q \/ PointLess(p, q))))

(* The adjacent enemy with the least point, its hp not looked at *)
select_target_first(b, this_pos, enemy_team) ==
    LET adjacent == {q \in NeighborSet(this_pos) :
                        q \in DOMAIN b.units /\ b.units[q].team = enemy_team}
    IN  IF adjacent = {} THEN None
        ELSE Some(CHOOSE p \in adjacent : \A q \in adjacent : p = q \/ PointLess(p, q))

(* Step 4 of progress: the adjacent enemy with the least (hp, point) *)
select_target(b, this_pos, enemy_team) ==
    LET adjacent == {q \in NeighborSet(this_pos) :
                        q \in DOMAIN b.units /\ b.units[q].team = enemy_team}
    IN  IF adjacent = {} THEN None
        ELSE Some(CHOOSE p \in adjacent : \A q \in adjacent :
                    \/ b.units[p].hp < b.units[q].hp
                    \/ (b.units[p].hp = b.units[q].hp /\ (p = q \/ PointLess(p, q))))

NoTurn == [pos |-> None, dir |-> None, moved_to |-> None,
           attacked |-> None, defeated |-> None]

(* Step 5 with Over returned as soon as only the acting unit's team is left *)
finish_turn_over_at_once(g, t) ==
    IF team_won(g.board, g.board.units[t.moved_to[1]].team)
    THEN [state |-> "Over", game |-> g, turn |-> t]
    ELSE IF g.to_be_moved = <<>>
    THEN [state |-> IF start_new_turn(g).ok THEN "Going" ELSE "Panic",
          game |-> start_new_turn(g).game, turn |-> t]
    ELSE [state |-> "Going", game |-> g, turn |-> t]

(* Step 5 of progress *)
finish_turn(g, t) ==
    IF g.to_be_moved = <<>>
    THEN [state |-> IF start_new_turn(g).ok THEN "Going" ELSE "Panic",
          game |-> start_new_turn(g).game, turn |-> t]
    ELSE [state |-> "Going", game |-> g, turn |-> t]

(* The bookkeeping of a defeat with every defeated unit counted, Elf or not *)
after_attack_count_all(g, t, target, hit) ==
    IF ~hit.ok
    THEN [state |-> "Panic", game |-> [g EXCEPT !.board = hit.board],
          turn |-> [t EXCEPT !.attacked = Some(target), !.defeated = hit.defeated]]
    ELSE IF hit.defeated = None
    THEN finish_turn([g EXCEPT !.board = hit.board],
                     [t EXCEPT !.attacked = Some(target)])
    ELSE finish_turn(
            [g EXCEPT !.board = hit.board,
                      !.defeated_elves = @ + 1,
                      !.to_be_moved = remove_defeated(@, target)],
            [t EXCEPT !.attacked = Some(target), !.defeated = hit.defeated])

(* Step 4 of progress after the call of attack: the bookkeeping of a defeat *)
after_attack(g, t, target, hit) ==
    IF ~hit.ok
    THEN [state |-> "Panic", game |-> [g EXCEPT !.board = hit.board],
          turn |-> [t EXCEPT !.attacked = Some(target), !.defeated = hit.defeated]]
    ELSE IF hit.defeated = None
    THEN finish_turn([g EXCEPT !.board = hit.board],
                     [t EXCEPT !.attacked = Some(target)])
    ELSE finish_turn(
            [g EXCEPT !.board = hit.board,
                      !.defeated_elves = IF hit.defeated[1].team = Elf THEN @ + 1 ELSE @,
                      !.to_be_moved = remove_defeated(@, target)],
            [t EXCEPT !.attacked = Some(target), !.defeated = hit.defeated])

(* Step 4 of progress, for the target selected *)
attack_target(g, t, this_pos, target) ==
    IF target = None THEN finish_turn(g, t)
    ELSE after_attack(g, t, target[1], attack(g.board, this_pos, target[1]))

(* The same with the target looked for around the position the unit had when  *)
(* its turn began                                                              *)
after_move_from_old(g, t, enemy_team, moved) ==
    IF ~moved.ok THEN [state |-> "Panic", game |-> g, turn |-> t]
    ELSE attack_target([g EXCEPT !.board = moved.board], t, moved.goal,
                       select_target(moved.board, t.pos[1], enemy_team))

(* Steps 3 and 4 of progress once the unit has moved (or stayed) *)
after_move(g, t, enemy_team, moved) ==
    IF ~moved.ok THEN [state |-> "Panic", game |-> g, turn |-> t]
    ELSE attack_target([g EXCEPT !.board = moved.board], t, moved.goal,
                       select_target(moved.board, moved.goal, enemy_team))

(* Step 3 of progress, for the direction found *)
move_towards(g, this_pos, enemy_team, dir, moved) ==
    after_move(g, [NoTurn EXCEPT !.pos = Some(this_pos), !.dir = dir,
                                 !.moved_to = Some(moved.goal)],
               enemy_team, moved)

stay_or_move(g, this_pos, enemy_team, dir) ==
    move_towards(g, this_pos, enemy_team, dir,
                 IF dir = None THEN [ok |-> TRUE, board |-> g.board, goal |-> this_pos]
                 ELSE move_unit(g.board, this_pos, dir[1]))

(* Steps 3 and 4 of progress, for the popped position *)
move_and_attack(g, this_pos, enemy_team) ==
    stay_or_move(g, this_pos, enemy_team, find_enemy_direction(g.board, this_pos))

(* Steps 1 and 2 of progress, for the popped position *)
take_turn(g, this_pos, popped) ==
    IF this_pos \notin DOMAIN g.board.units
    THEN [state |-> "Panic", game |-> popped,
          turn |-> [NoTurn EXCEPT !.pos = Some(this_pos)]]
    ELSE IF team_won(g.board, g.board.units[this_pos].team)
    THEN [state |-> "Over", game |-> popped,
          turn |-> [NoTurn EXCEPT !.pos = Some(this_pos)]]
    ELSE move_and_attack(popped, this_pos, enemy(g.board.units[this_pos].team))

(* Game::progress on the game g: the returned state, the game afterwards and   *)
(* what the turn did. "Panic" stands for the expect/index/assert panics.       *)
progress(g) ==
    IF g.to_be_moved = <<>> THEN [state |-> "Panic", game |-> g, turn |-> NoTurn]
    ELSE take_turn(g, g.to_be_moved[Len(g.to_be_moved)],
                   [g EXCEPT !.to_be_moved = SubSeq(@, 1, Len(@) - 1)])

(* The product with the round under way counted as completed *)
checksum_started(g) == (g.completed_turns + 1) * total_hp(g.board)

(* Game::make_turn: progress called until it returns Over (or panics) or a     *)
(* round is completed; r is what the last call returned.                       *)
RECURSIVE make_turn_from(_, _)
make_turn_from(r, old) ==
    IF r.state # "Going" \/ r.game.completed_turns # old THEN r
    ELSE make_turn_from(progress(r.game), old)

make_turn(g) == make_turn_from(progress(g), g.completed_turns)

(* Game::checksum: a product of two u64, the rounds and a sum of u8 hp, which   *)
(* stays below 2^64 for every count of rounds followed here                    *)
checksum(g) == g.completed_turns * total_hp(g.board)

-----------------------------------------------------------------------------
(* Starting maps. A map is the byte sequence main reads: rows of equal width,  *)
(* each ended by a line break, as the byte-string literals of the tests are.   *)
RECURSIVE Lines(_)
Lines(rows) ==
    IF rows = <<>> THEN <<>> ELSE Head(rows) \o <<"\n">> \o Lines(Tail(rows))

WallRow(n) == [i \in 1..n |-> "#"]

(* The cave the rows are the inside of: a wall all around, as every test map has *)
Framed(rows) ==
    LET edge == WallRow(Len(rows[1]) + 2) IN
    Lines(<<edge>> \o [i \in 1..Len(rows) |-> <<"#">> \o rows[i] \o <<"#">>] \o <<edge>>)

(* The most rounds a game is followed for *)
MaxRounds == 105

(* The most units placed on a terrain of the pathfinder's maps *)
MaxUnits == 3

(* The elven powers games are constructed with: none, Board::new's 3, one that *)
(* defeats in one blow, and the greatest u8.                                   *)
Powers == {0, 3, 200, 255}

Maps == {
    Framed(<< <<"G", ".", ".", "E">> >>),
    Framed(<< <<"G", "E", "G">> >>),
    Framed(<< <<"E", ".", "G", ".", "G">> >>),
    Framed(<< <<"E", "G", "G", ".", "G">> >>),
    Framed(<< <<"G", ".", "G">> >>),
    Framed(<< <<"G", "#", "E">> >>),
    Framed(<< <<".", ".", ".">> >>),
    Framed(<< <<"E", "G">>,
              <<"G", ".">> >>),
    Framed(<< <<".", ".", "E">>,
              <<"G", "E", "G">> >>),
    Framed(<< <<".", "G", ".">>,
              <<"G", "E", "G">>,
              <<".", "G", ".">> >>),
    Framed(<< <<"G", ".", "E">>,
              <<".", ".", ".">>,
              <<"E", ".", "G">> >>),
    Framed(<< <<"G", "#", "#", ".", "G">>,
              <<".", ".", "E", ".", ".">> >>)
}

(* The terrains of the pathfinder's maps *)
Terrains == {
    << <<".", "#", "#", ".", ".">>,
       <<".", ".", ".", ".", ".">> >>,
    << <<".", ".", ".">>,
       <<".", ".", ".">>,
       <<".", ".", ".">> >>,
    << <<".", "#", ".", ".">>,
       <<".", "#", ".", ".">> >>
}

Cells(rows) == {c \in (1..Len(rows)) \X (1..Len(rows[1])) : rows[c[1]][c[2]] = "."}

(* The terrain with the units of a placement (cell -> team byte) written into it *)
Placed(rows, placement) ==
    [i \in 1..Len(rows) |-> [j \in 1..Len(rows[1]) |->
        IF <<i, j>> \in DOMAIN placement THEN placement[<<i, j>>] ELSE rows[i][j]]]

Placements(rows) ==
    UNION {[on -> {"G", "E"}] : on \in {s \in SUBSET Cells(rows) : Cardinality(s) <= MaxUnits}}

MapsOn(rows) == {Framed(Placed(rows, placement)) : placement \in Placements(rows)}

PathMaps == UNION {MapsOn(rows) : rows \in Terrains}

-----------------------------------------------------------------------------
Range(seq) == {seq[i] : i \in 1..Len(seq)}

(* History of a round: origin maps each living unit's position to the position *)
(* it had when the round started; took lists, by those positions, the units    *)
(* that took a turn; died_waiting holds those defeated before their turn;      *)
(* entered holds the cells units moved onto.                                   *)
NewRound(units) ==
    [origin |-> [p \in DOMAIN units |-> p], took |-> <<>>, died_waiting |-> {},
     start |-> DOMAIN units, entered |-> {}]

Track(rd, t) ==
    LET pos == t.pos[1]
        dest == t.moved_to[1]
        o == rd.origin[pos]
        took1 == Append(rd.took, o)
        origin1 == [q \in (DOMAIN rd.origin \ {pos}) \cup {dest} |->
                       IF q = dest THEN o ELSE rd.origin[q]]
        dead == IF t.defeated # None THEN {t.attacked[1]} ELSE {}
        died1 == rd.died_waiting \cup
                     {origin1[q] : q \in {d \in dead : origin1[d] \notin Range(took1)}}
    IN  [origin |-> [q \in DOMAIN origin1 \ dead |-> origin1[q]], took |-> took1,
         died_waiting |-> died1, start |-> rd.start,
         entered |-> rd.entered \cup ({dest} \ {pos})]

-----------------------------------------------------------------------------
(* The Game made of the parsed board b; a map the parser panics on leaves none *)
Constructed(bs, pw, b, g) ==
    /\ bytes = bs
    /\ power = pw
    /\ board = g.board
    /\ to_be_moved = g.to_be_moved
    /\ completed_turns = g.completed_turns
    /\ defeated_elves = g.defeated_elves
    /\ state = IF b.ok THEN "Going" ELSE "Panic"
    /\ turn = NoTurn
    /\ round = NewRound(g.board.units)
    /\ prev_round = None
    /\ query = None
    /\ answer = None
    /\ output = <<>>
    /\ probes = <<>>
    /\ search = None
    /\ hashed = None

Parsed(bs, pw, b) ==
    Constructed(bs, pw, b, from_board([size |-> b.size, map |-> b.map, units |-> b.units]))

(* Game::with_elven_power(&bytes, pw) *)
Construct(bs, pw) == Parsed(bs, pw, with_elven_power(bs, pw))

Init == \E bs \in Maps, pw \in Powers : Construct(bs, pw)

PathInit == \E bs \in PathMaps : Construct(bs, 3)

Game == [completed_turns |-> completed_turns, to_be_moved |-> to_be_moved,
         board |-> board, defeated_elves |-> defeated_elves]

(* The game and the histories after a call of progress that returned r *)
Returned(r, tracked) ==
    /\ state' = r.state
    /\ board' = r.game.board
    /\ to_be_moved' = r.game.to_be_moved
    /\ completed_turns' = r.game.completed_turns
    /\ defeated_elves' = r.game.defeated_elves
    /\ turn' = r.turn
    /\ round' = IF r.game.completed_turns # completed_turns
                THEN NewRound(r.game.board.units) ELSE tracked
    /\ prev_round' = IF r.game.completed_turns # completed_turns
                     THEN Some(tracked) ELSE prev_round
    /\ query' = IF r.turn.moved_to # None THEN r.turn.pos ELSE query
    /\ answer' = IF r.turn.moved_to # None THEN r.turn.dir ELSE answer

Tracked(r) == Returned(r, IF r.state = "Going" THEN Track(round, r.turn) ELSE round)

(* One call of Game::progress, as make_turn's loop makes while the game is Going *)
Progress ==
    /\ state = "Going"
    /\ completed_turns < MaxRounds
    /\ Tracked(progress(Game))
    /\ UNCHANGED <<bytes, power, output, probes, search, hashed>>

(* One call of Board::find_enemy_direction for a unit of the board *)
FindEnemyDirection(start) ==
    /\ query' = Some(start)
    /\ answer' = find_enemy_direction(board, start)
    /\ UNCHANGED <<bytes, power, board, to_be_moved, completed_turns, defeated_elves,
                   state, turn, round, prev_round, output, probes, search, hashed>>

Next == Progress

PathNext == \E start \in DOMAIN board.units : FindEnemyDirection(start)

Spec == Init /\ [][Next]_vars

PathSpec == PathInit /\ [][PathNext]_vars

-----------------------------------------------------------------------------
(* main: the run with Board::new's power, its report, and the search for the   *)
(* least power with no elf defeated.                                           *)

(* The test fixture of test_combat1 *)
Combat1 ==
    Framed(<< <<".", "G", ".", ".", ".">>,
              <<".", ".", ".", "E", "G">>,
              <<".", "#", ".", "#", "G">>,
              <<".", ".", "G", "#", "E">>,
              <<".", ".", ".", ".", ".">> >>)

(* The maps main is run on *)
MainMaps == {
    Combat1,
    Framed(<< <<".", ".", "E", "G">>,
              <<"G", "G", ".", "E">> >>),
    Framed(<< <<"G", ".", ".", "E">> >>),
    Framed(<< <<"E", ".", "G">> >>),
    Framed(<< <<"G", ".", "G">> >>),
    Framed(<< <<"E", ".", "E">> >>),
    Framed(<< <<"G", "#", "E">> >>),
    Framed(<< <<".", ".", ".">> >>)
}

(* `while let GameState::Going = game.make_turn() {}`, followed for MaxRounds  *)
(* rounds; r is what the last make_turn returned.                              *)
RECURSIVE run_from(_)
run_from(r) ==
    IF r.state # "Going" \/ r.game.completed_turns >= MaxRounds THEN r
    ELSE run_from(make_turn(r.game))

(* A whole run of the game made of the bytes with elven power pw *)
simulate(bs, pw) ==
    IF ~with_elven_power(bs, pw).ok
    THEN [state |-> "Panic", game |-> from_board([size |-> Point(0, 0), map |-> <<>>, units |-> <<>>]), turn |-> NoTurn]
    ELSE run_from([state |-> "Going", turn |-> NoTurn,
                   game |-> from_board([size |-> with_elven_power(bs, pw).size,
                                        map |-> with_elven_power(bs, pw).map,
                                        units |-> with_elven_power(bs, pw).units])])

(* println!("...: {}", value) *)
Line(text, value) == <<text, value>>

(* What a finished run came to *)
finished(g, pw) ==
    [power |-> pw, completed_turns |-> g.completed_turns, checksum |-> checksum(g),
     defeated_elves |-> g.defeated_elves]

(* The power after p in `for power in 4..`, stepped up by two at a time *)
forward_by_two(p) == {Some((p + 2) % 256)}

(* RangeFrom<u8>::next after it yielded p: it yields p + 1 and steps its start *)
(* to p + 2. When p + 1 is 255 that step overflows: a panic (None) where       *)
(* overflow is checked, a start of 0 where it is not.                          *)
forward(p) ==
    IF p < 254 THEN {Some(p + 1)}
    ELSE IF p = 254 THEN {None, Some(255)}
    ELSE {Some(0)}

(* The game of a probe with the losses counted so far carried into it *)
probe_game_carried(old, bs, pw) ==
    [from_board([size |-> with_elven_power(bs, pw).size,
                 map |-> with_elven_power(bs, pw).map,
                 units |-> with_elven_power(bs, pw).units])
        EXCEPT !.defeated_elves = old.defeated_elves]

(* `let mut game = Game::with_elven_power(&board, power)` in the loop's body:  *)
(* a new Game made of the bytes, the one before it (old) dropped.              *)
probe_game(old, bs, pw) ==
    from_board([size |-> with_elven_power(bs, pw).size,
                map |-> with_elven_power(bs, pw).map,
                units |-> with_elven_power(bs, pw).units])

(* The variables once the probe's game g is constructed *)
Restarted(pw, ok, g) ==
    /\ power' = pw
    /\ board' = g.board
    /\ to_be_moved' = g.to_be_moved
    /\ completed_turns' = g.completed_turns
    /\ defeated_elves' = g.defeated_elves
    /\ state' = IF ok THEN "Going" ELSE "Panic"
    /\ turn' = NoTurn
    /\ round' = NewRound(g.board.units)
    /\ prev_round' = None
    /\ query' = None
    /\ answer' = None

StartProbe(pw) ==
    Restarted(pw, with_elven_power(bytes, pw).ok, probe_game(Game, bytes, pw))

(* The for loop is left with no power to go on with: the panic of the overflow *)
Overflowed ==
    /\ state' = "Panic"
    /\ UNCHANGED <<power, board, to_be_moved, completed_turns, defeated_elves,
                   turn, round, prev_round, query, answer>>

GameKept ==
    UNCHANGED <<power, board, to_be_moved, completed_turns, defeated_elves,
                state, turn, round, prev_round, query, answer>>

(* main once the first run is Over: the two lines, then "perfect game!" or the *)
(* first probe, with power 4.                                                  *)
ReportBaseline ==
    /\ state = "Over"
    /\ output = <<>>
    /\ probes' = Append(probes, finished(Game, power))
    /\ UNCHANGED <<bytes, search, hashed>>
    /\ IF defeated_elves = 0
       THEN /\ output' = <<Line("completed turns", completed_turns),
                           Line("checksum", checksum(Game)),
                           <<"perfect game!">> >>
            /\ GameKept
       ELSE /\ output' = <<Line("completed turns", completed_turns),
                           Line("checksum", checksum(Game))>>
            /\ StartProbe(4)

(* main once a probe's run is Over: the two lines and the break, or the next   *)
(* power and its game.                                                         *)
EndProbe ==
    /\ state = "Over"
    /\ Len(output) = 2
    /\ probes' = Append(probes, finished(Game, power))
    /\ UNCHANGED <<bytes, search, hashed>>
    /\ IF defeated_elves = 0
       THEN /\ output' = output \o
                    <<Line("minimum power for perfect game", power),
                      Line("perfect checksum", checksum(Game))>>
            /\ GameKept
       ELSE /\ output' = output
            /\ \E next \in forward(power) :
                   IF next = None THEN Overflowed ELSE StartProbe(next[1])

MainInit == \E bs \in MainMaps : Construct(bs, 3)

MainNext == Progress \/ ReportBaseline \/ EndProbe

MainSpec == MainInit /\ [][MainNext]_vars

(* main has printed its last line *)
Done == Len(output) > 2

-----------------------------------------------------------------------------
(* main from the bytes it read, whatever they are, to the Game made of them *)

(* The most bytes of an input *)
MaxBytes == 5

(* The bytes of an input: those of the tiles, the line break, and "x" for any  *)
(* of the other bytes                                                          *)
Alphabet == {".", "#", "G", "E", "\n", "x"}

Inputs == UNION {[1..n -> Alphabet] : n \in 0..MaxBytes}

(* main has read bs from stdin and made no Game yet *)
Read(bs) ==
    /\ bytes = bs
    /\ power = 3
    /\ board = [size |-> Point(0, 0), map |-> <<>>, units |-> <<>>]
    /\ to_be_moved = <<>>
    /\ completed_turns = 0
    /\ defeated_elves = 0
    /\ state = "Read"
    /\ turn = NoTurn
    /\ round = NewRound(<<>>)
    /\ prev_round = None
    /\ query = None
    /\ answer = None
    /\ output = <<>>
    /\ probes = <<>>
    /\ search = None
    /\ hashed = None

(* Game::new(&board): the Game of Board::new, whose elven power is 3 *)
new_game(bs) ==
    from_board([size |-> with_elven_power(bs, 3).size,
                map |-> with_elven_power(bs, 3).map,
                units |-> with_elven_power(bs, 3).units])

(* `let mut game = Game::new(&board)`: state is Panic when the parser panicked *)
NewGame ==
    /\ state = "Read"
    /\ Restarted(3, with_elven_power(bytes, 3).ok, new_game(bytes))
    /\ UNCHANGED <<bytes, output, probes, search, hashed>>

ParseInit == \E bs \in Inputs : Read(bs)

ParseNext == NewGame

ParseSpec == ParseInit /\ [][ParseNext]_vars

-----------------------------------------------------------------------------
(* Runs of one map with several elven powers, as test_combat1..6 make them *)
BoostMaps == {
    Framed(<< <<".", ".", "E", "G">>,
              <<"G", "G", ".", "E">> >>),
    Framed(<< <<"G", ".", ".", "E">> >>),
    Framed(<< <<"G", "E", "G">> >>),
    Framed(<< <<"E", "G">>,
              <<"G", ".">> >>)
}

(* The powers of those runs: Board::new's, two in between, the hp of a unit    *)
(* and the greatest u8                                                         *)
BoostPowers == {3, 9, 10, 200, 255}

BoostInit == \E bs \in BoostMaps, pw \in BoostPowers : Construct(bs, pw)

BoostSpec == BoostInit /\ [][Next]_vars

-----------------------------------------------------------------------------
(* The iterations of the HashMaps: of the registry, when the queue is built,   *)
(* and of the pathfinder's open set, in whatever order the hashing yields.     *)

(* The orders in which an iterator can yield the elements of s *)
RECURSIVE Orders(_)
Orders(s) ==
    IF s = {} THEN {<<>>}
    ELSE UNION {{<<x>> \o rest : rest \in Orders(s \ {x})} : x \in s}

(* sort_by_key(|&p| Reverse(p)) is a stable sort: each key goes behind the     *)
(* entries that are not less than it.                                          *)
RECURSIVE insert_reverse(_, _)
insert_reverse(sorted, p) ==
    IF sorted = <<>> THEN <<p>>
    ELSE IF PointLess(Head(sorted), p) THEN <<p>> \o sorted
    ELSE <<Head(sorted)>> \o insert_reverse(Tail(sorted), p)

RECURSIVE sort_keys(_, _)
sort_keys(keys, sorted) ==
    IF keys = <<>> THEN sorted
    ELSE sort_keys(Tail(keys), insert_reverse(sorted, Head(keys)))

(* units.keys().cloned().collect::<Vec<_>>() as yielded, then the sort *)
collect_sorted(keys) == sort_keys(keys, <<>>)

(* What progress returned, the queue of a round it started built from keys *)
rehash(r, old, keys) ==
    IF r.state = "Going" /\ r.game.completed_turns # old
    THEN [r EXCEPT !.game.to_be_moved = collect_sorted(keys)]
    ELSE r

(* The orders that matter to the call of progress that returned r *)
KeyOrders(r, old) ==
    IF r.state = "Going" /\ r.game.completed_turns # old
    THEN Orders(DOMAIN r.game.board.units)
    ELSE {<<>>}

(* Iterator::min_by_key keeps the earlier of two entries unless the later    *)
(* one's key is less; here the key is the distance alone.                    *)
RECURSIVE min_entry_dist(_, _, _)
min_entry_dist(entries, open, best) ==
    IF entries = <<>> THEN best
    ELSE min_entry_dist(Tail(entries), open,
                        IF open[Head(entries)] < open[best] THEN Head(entries) ELSE best)

min_by_key_open_dist(entries, open) == min_entry_dist(Tail(entries), open, Head(entries))

(* The same with the key (dist, point) *)
RECURSIVE min_entry(_, _, _)
min_entry(entries, open, best) ==
    IF entries = <<>> THEN best
    ELSE min_entry(Tail(entries), open,
                   IF \/ open[Head(entries)] < open[best]
                      \/ (open[Head(entries)] = open[best] /\ PointLess(Head(entries), best))
                   THEN Head(entries) ELSE best)

(* open.iter().min_by_key(|&(point, dist)| (dist, point)), the iterator        *)
(* yielding the entries in the order given                                     *)
min_by_key_open(entries, open) == min_entry(Tail(entries), open, Head(entries))

(* distance_to_closest_unit up to its loop *)
begin_search(b, start, goal) ==
    [start |-> start, goal |-> goal, visited |-> {}, first |-> None, current |-> None,
     open |-> IF is_team(get(b, start)[1], goal) THEN <<>> ELSE (start :> 0),
     done |-> is_team(get(b, start)[1], goal),
     result |-> IF is_team(get(b, start)[1], goal) THEN Some(0) ELSE None]

(* One iteration of the loop, for the entry min_by_key picked *)
visit(b, s, current) ==
    IF HasGoalNeighbor(b, current, s.goal)
    THEN [s EXCEPT !.done = TRUE, !.result = Some(s.open[current] + 1),
                   !.current = Some(current)]
    ELSE
        LET dist == s.open[current]
            seen == s.visited \cup {current}
            rest == DOMAIN s.open \ {current}
            fresh == {n \in NeighborSet(current) :
                         n \notin seen /\ get(b, n) = Some(Empty)}
        IN  [s EXCEPT !.current = Some(current), !.visited = seen,
                      !.open = [p \in rest \cup fresh |->
                                   IF p \notin rest THEN dist + 1
                                   ELSE IF p \in fresh /\ dist + 1 < s.open[p] THEN dist + 1
                                   ELSE s.open[p]]]

(* The loop ends when min_by_key finds the open set empty *)
exhausted(s) == [s EXCEPT !.done = TRUE, !.result = None, !.current = None, !.first = None]

(* The maps the iterations are followed on *)
OrderMaps == {
    Framed(<< <<"E", ".", "G", ".", "G">> >>),
    Framed(<< <<"E", "G">>,
              <<"G", ".">> >>),
    Framed(<< <<"G", ".", "E">>,
              <<".", ".", ".">>,
              <<"E", ".", "G">> >>),
    Framed(<< <<"G", "#", "#", ".", "G">>,
              <<".", ".", "E", ".", ".">> >>)
}

Hashed(bs, b, keys) ==
    Constructed(bs, 3, b, [from_board([size |-> b.size, map |-> b.map, units |-> b.units])
                              EXCEPT !.to_be_moved = collect_sorted(keys)])

OrderInit ==
    \E bs \in OrderMaps :
        \E keys \in Orders(DOMAIN with_elven_power(bs, 3).units) :
            Hashed(bs, with_elven_power(bs, 3), keys)

(* No call of distance_to_closest_unit is under way *)
NotSearching == IF search = None THEN TRUE ELSE search[1].done

(* One call of progress, the registry iterated in the order of keys *)
ProgressHashed ==
    /\ state = "Going"
    /\ NotSearching
    /\ completed_turns < MaxRounds
    /\ \E keys \in KeyOrders(progress(Game), completed_turns) :
          /\ Tracked(rehash(progress(Game), completed_turns, keys))
          /\ hashed' = IF keys = <<>> THEN hashed ELSE Some(keys[1])
    /\ search' = None
    /\ UNCHANGED <<bytes, power, output, probes>>

SearchKept ==
    UNCHANGED <<bytes, power, board, to_be_moved, completed_turns, defeated_elves,
                state, turn, round, prev_round, query, answer, output, probes, hashed>>

(* find_enemy_direction of the unit at start, the one whose turn it is, calls *)
(* distance_to_closest_unit for the cell in direction i                        *)
BeginSearch(start, i) ==
    /\ state = "Going"
    /\ NotSearching
    /\ to_be_moved # <<>>
    /\ start = to_be_moved[Len(to_be_moved)]
    /\ get(board, step(start, directions[i])) # None
    /\ get(board, step(start, directions[i]))[1] \notin {Wall, board.units[start].team}
    /\ search' = Some(begin_search(board, step(start, directions[i]),
                                   enemy(board.units[start].team)))
    /\ SearchKept

(* One iteration of the loop of distance_to_closest_unit *)
SearchIteration ==
    /\ search # None
    /\ ~search[1].done
    /\ IF DOMAIN search[1].open = {} THEN search' = Some(exhausted(search[1]))
       ELSE \E entries \in Orders(DOMAIN search[1].open) :
               search' = Some(visit(board, [search[1] EXCEPT !.first = Some(entries[1])],
                                    min_by_key_open(entries, search[1].open)))
    /\ SearchKept

OrderNext ==
    \/ ProgressHashed
    \/ \E start \in DOMAIN board.units, i \in 1..4 : BeginSearch(start, i)
    \/ SearchIteration

OrderSpec == OrderInit /\ [][OrderNext]_vars

-----------------------------------------------------------------------------
(* What the claims speak of, stated without the code's search: walking         *)
(* distances by rings of Empty cells around a cell.                            *)
AllPoints(b) == {Point(x, y) : x \in 0..(b.size.x - 1), y \in 0..(b.size.y - 1)}

EmptyCells(b) == {p \in AllPoints(b) : get(b, p) = Some(Empty)}

EnemiesNextTo(b, p, team) ==
    {n \in NeighborSet(p) : n \in DOMAIN b.units /\ b.units[n].team = enemy(team)}

(* The Empty cells orthogonally adjacent to an enemy of team *)
Targets(b, team) == {c \in EmptyCells(b) : EnemiesNextTo(b, c, team) # {}}

RECURSIVE Grow(_, _, _)
Grow(free, rings, seen) ==
    LET next == {n \in free \ seen : \E m \in rings[Len(rings)] : n \in NeighborSet(m)}
    IN  IF next = {} THEN rings ELSE Grow(free, Append(rings, next), seen \cup next)

(* Rings(b, s)[k + 1]: the cells exactly k steps from s, walking over Empty cells *)
Rings(b, s) == Grow(EmptyCells(b), <<{s}>>, {s})

(* The least number of steps from s to a cell of goals, if one can be reached *)
StepsTo(b, s, goals) ==
    LET rings == Rings(b, s)
        hits == {k \in 0..(Len(rings) - 1) : rings[k + 1] \cap goals # {}}
    IN  IF hits = {} THEN None ELSE Some(CHOOSE k \in hits : \A j \in hits : k <= j)

LeastPoint(ps) == CHOOSE p \in ps : \A q \in ps : p = q \/ PointLess(p, q)

(* The reading-order-least of the targets nearest to the unit at s *)
NearestTarget(b, s) ==
    LET goals == Targets(b, b.units[s].team)
        d == StepsTo(b, s, goals)
    IN  IF d = None THEN None
        ELSE Some(LeastPoint(Rings(b, s)[d[1] + 1] \cap goals))

(* The first steps of the unit at s that start a shortest walk to a target *)
BestFirstSteps(b, s) ==
    LET goals == Targets(b, b.units[s].team)
        d == StepsTo(b, s, goals)
    IN  IF d = None THEN {}
        ELSE {i \in 1..4 :
                 /\ step(s, directions[i]) \in EmptyCells(b)
                 /\ StepsTo(b, step(s, directions[i]), goals) = Some(d[1] - 1)}

(* C1: the step find_enemy_direction returns lies on a shortest walk to the    *)
(* reading-order-least of the nearest enemy-adjacent Empty cells.              *)
C1_StepLeadsToLeastNearestTarget ==
    (query # None /\ answer # None) =>
        LET s == query[1]
            goal == NearestTarget(board, s)
            first == step(s, answer[1])
        IN  /\ goal # None
            /\ first \in EmptyCells(board)
            /\ StepsTo(board, first, {goal[1]}) # None
            /\ Some(StepsTo(board, first, {goal[1]})[1] + 1) = StepsTo(board, s, {goal[1]})

-----------------------------------------------------------------------------
(* The units a progress step found other than the acting one, and those of     *)
(* them it harmed or removed.                                                  *)
Bystanders == DOMAIN board.units \ {turn'.pos[1]}

Harmed ==
    {q \in Bystanders :
        q \notin DOMAIN board'.units \/ board'.units[q].hp # board.units[q].hp}

(* C3: the attacked unit is the adjacent enemy of lowest hp, the reading-order *)
(* earliest of several; with no enemy adjacent no unit's hp changes.           *)
C3_AttackLowestHpThenReadingOrder ==
    [][(state' = "Going") =>
        LET was == turn'.pos[1]
            me == turn'.moved_to[1]
            mine == board.units[was]
            foes == {q \in NeighborSet(me) \cap Bystanders :
                        board.units[q].team = enemy(mine.team)}
            low == {q \in foes : \A f \in foes : board.units[q].hp <= board.units[f].hp}
        IN  /\ me \in DOMAIN board'.units
            /\ board'.units[me] = mine
            /\ IF foes = {} THEN Harmed = {} /\ turn'.attacked = None
               ELSE /\ turn'.attacked = Some(LeastPoint(low))
                    /\ Harmed = IF mine.attack > 0 THEN {LeastPoint(low)} ELSE {}
    ]_vars

(* A unit attacked, of two adjacent enemies, the later one, which had less hp *)
C3_Witness ==
    /\ state = "Going" /\ turn.attacked # None
    /\ \E q \in NeighborSet(turn.moved_to[1]) \cap DOMAIN board.units :
          /\ board.units[q].team # board.units[turn.moved_to[1]].team
          /\ PointLess(q, turn.attacked[1])
          /\ turn.attacked[1] \in DOMAIN board.units
          /\ board.units[q].hp > board.units[turn.attacked[1]].hp + 3

(* The tile the parser read at a point of the starting map *)
ParsedTile(p) ==
    get(with_elven_power(bytes, power), p)

(* C4: a tile is a team's marker exactly where the registry holds a unit of    *)
(* that team; every other tile is Empty or Wall; walls are where they were.    *)
C4_TilesMatchRegistry ==
    (state # "Panic") =>
        /\ DOMAIN board.units \subseteq AllPoints(board)
        /\ \A p \in AllPoints(board) :
            LET tile == get(board, p)[1] IN
            /\ tile \in {Empty, Wall, Gnome, Elf}
            /\ \A team \in {Gnome, Elf} :
                 (tile = team) <=> (p \in DOMAIN board.units /\ board.units[p].team = team)
            /\ (tile = Wall) <=> (ParsedTile(p) = Some(Wall))

(* A unit has just moved and defeated an enemy in the same turn *)
C4_Witness ==
    /\ state = "Going"
    /\ turn.dir # None
    /\ turn.defeated # None

(* C5: progress returns Over exactly when only the popped unit's team is left, *)
(* and then no unit is moved or harmed and no round is counted.                *)
C5_OverIffOnlyOwnTeamLeft ==
    [][(state' # "Panic") =>
        LET this_pos == to_be_moved[Len(to_be_moved)] IN
        /\ (state' = "Over") <=>
               (\A p \in DOMAIN board.units :
                    board.units[p].team = board.units[this_pos].team)
        /\ (state' = "Over") =>
               /\ board' = board
               /\ completed_turns' = completed_turns
               /\ defeated_elves' = defeated_elves
    ]_vars

C5_Witness ==
    /\ state = "Over"
    /\ completed_turns > 0
    /\ defeated_elves > 0

(* C6: in a completed round the turns were taken in reading order of the       *)
(* round-start positions, one by every unit that started the round and was     *)
(* not defeated before its turn, and none by any other.                        *)
C6_OneTurnEachInReadingOrder ==
    (prev_round # None) =>
        LET r == prev_round[1] IN
        /\ \A i, j \in 1..Len(r.took) : i < j => PointLess(r.took[i], r.took[j])
        /\ Range(r.took) = r.start \ r.died_waiting

(* A round was completed in which a unit was defeated before its turn and a    *)
(* unit moved onto the cell that unit had when the round started.              *)
C6_Witness ==
    /\ prev_round # None
    /\ prev_round[1].died_waiting \cap prev_round[1].entered # {}
    /\ Len(prev_round[1].took) >= 2

QueueIsSortedUnits ==
    /\ Range(to_be_moved) = DOMAIN board.units
    /\ \A i, j \in 1..Len(to_be_moved) : i < j => PointLess(to_be_moved[j], to_be_moved[i])

(* C7: at game creation and at every round's start the queue is the reading-   *)
(* order sort of the living units' positions; within a round it only loses     *)
(* the popped entry and entries of units that died, the rest keeping order.    *)
C7_QueueSortedAndOnlyShrinks ==
    /\ QueueIsSortedUnits
    /\ [][(state' # "Panic") =>
            IF completed_turns' # completed_turns THEN QueueIsSortedUnits'
            ELSE LET popped == SubSeq(to_be_moved, 1, Len(to_be_moved) - 1)
                     left(q) == q \in Range(to_be_moved')
                 IN  /\ to_be_moved' = SelectSeq(popped, left)
                     /\ Range(popped) \ Range(to_be_moved') \subseteq
                            Bystanders \ DOMAIN board'.units
       ]_vars

(* A unit that was waiting for its turn has just died, others still waiting *)
C7_Witness ==
    /\ state = "Going"
    /\ round.died_waiting # {}
    /\ Len(to_be_moved) >= 1
    /\ turn.defeated # None

(* C8: every position in the queue holds a living unit that has not acted in   *)
(* this round.                                                                 *)
C8_QueueHoldsLivingWaitingUnits ==
    (state = "Going") =>
        \A i \in 1..Len(to_be_moved) :
            /\ to_be_moved[i] \in DOMAIN board.units
            /\ round.origin[to_be_moved[i]] = to_be_moved[i]
            /\ to_be_moved[i] \notin Range(round.took)

(* A unit died before its turn, another has moved onto the cell it left, and   *)
(* units are still waiting for their turn.                                     *)
C8_Witness ==
    /\ state = "Going"
    /\ round.died_waiting \cap round.entered # {}
    /\ to_be_moved # <<>>

(* C9: every unit of the registry has between 1 and 200 hp; a defeated unit is *)
(* gone from the registry and its tile is Empty when the attack is done.       *)
C9_HpBetween1And200 ==
    /\ \A p \in DOMAIN board.units : board.units[p].hp \in 1..200
    /\ (state # "Panic" /\ turn.defeated # None) =>
           /\ turn.attacked[1] \notin DOMAIN board.units
           /\ get(board, turn.attacked[1]) = Some(Empty)

C9_Witness ==
    /\ turn.defeated # None
    /\ \E p \in DOMAIN board.units : board.units[p].hp < 200

(* C10: total_hp never grows, and it falls in every step with an attack of     *)
(* positive power.                                                             *)
C10_TotalHpFalls ==
    [][(state' # "Panic") =>
        /\ total_hp(board') <= total_hp(board)
        /\ (turn'.attacked # None /\ board'.units[turn'.moved_to[1]].attack > 0) =>
               total_hp(board') < total_hp(board)
    ]_vars

(* A blow of 255 has just defeated a Gnome with at most 200 hp *)
C10_Witness ==
    /\ power = 255
    /\ turn.defeated # None
    /\ turn.defeated[1].team = Gnome

-----------------------------------------------------------------------------
(* The hp of the units on the board, added up in reading order of their cells *)
RECURSIVE HpInOrder(_, _)
HpInOrder(units, cells) ==
    IF cells = <<>> THEN 0 ELSE units[Head(cells)].hp + HpInOrder(units, Tail(cells))

SurvivorsHp == HpInOrder(board.units, sort_by_key(DOMAIN board.units))

(* The step drained the queue of the round: the popped entry was its last, or  *)
(* the only other entry was that of the unit the step defeated.                *)
DrainedRound ==
    /\ state' = "Going"
    /\ Range(to_be_moved) \ {turn'.pos[1]} \subseteq
           (IF turn'.defeated # None THEN {turn'.attacked[1]} ELSE {})

(* C11: completed_turns starts at 0 and grows by one exactly in the steps that *)
(* drain a round's queue; when the game is Over the checksum is that count     *)
(* times the sum of the survivors' hp.                                         *)
C11_ChecksumIsRoundsTimesHp ==
    /\ completed_turns = 0
    /\ [][(state' # "Panic") =>
            completed_turns' = completed_turns + (IF DrainedRound THEN 1 ELSE 0)]_vars
    /\ [](state = "Over" => checksum(Game) = completed_turns * SurvivorsHp)

(* A game is Over after several full rounds, with survivors that were hit *)
C11_Witness ==
    /\ state = "Over"
    /\ completed_turns >= 2
    /\ SurvivorsHp > 0
    /\ \E p \in DOMAIN board.units : board.units[p].hp < 200

-----------------------------------------------------------------------------
(* C12: on the fixture of test_combat1 the run with power 3 ends after 47      *)
(* rounds with 590 hp (checksum 27730) and 2 elves defeated; the powers 4..14  *)
(* each lose an elf; power 15 loses none and ends after 29 rounds with 172 hp  *)
(* (checksum 4988), which is what main reports.                                *)
C12_Combat1Fixture ==
    (bytes = Combat1) =>
        /\ Len(probes) <= 13
        /\ \A i \in 1..Len(probes) :
              /\ probes[i].power = i + 2
              /\ (i = 1) => probes[i] = [power |-> 3, completed_turns |-> 47,
                                         checksum |-> 27730, defeated_elves |-> 2]
              /\ (i \in 2..12) => probes[i].defeated_elves >= 1
              /\ (i = 13) => probes[i] = [power |-> 15, completed_turns |-> 29,
                                          checksum |-> 4988, defeated_elves |-> 0]
        /\ (state = "Over" /\ power = 3) => total_hp(board) = 590
        /\ (state = "Over" /\ power = 15) => total_hp(board) = 172
        /\ Done => output = <<Line("completed turns", 47), Line("checksum", 27730),
                              Line("minimum power for perfect game", 15),
                              Line("perfect checksum", 4988)>>

C12_Witness ==
    /\ bytes = Combat1
    /\ Done
    /\ Len(probes) = 13

(* C13: main probes the powers 3, 4, 5, ... one by one and stops at the first  *)
(* run with no elf defeated: with power 3 it prints "perfect game!" and makes  *)
(* no further game; else it reports the first power from 4 up whose run loses  *)
(* no elf, every power below it having lost one.                               *)
C13_FirstPowerWithoutLosses ==
    /\ \A i \in 1..Len(probes) :
          /\ probes[i].power = i + 2
          /\ (i < Len(probes)) => probes[i].defeated_elves > 0
    /\ Done <=> (probes # <<>> /\ probes[Len(probes)].defeated_elves = 0)
    /\ Done =>
          /\ power = Len(probes) + 2
          /\ simulate(bytes, power).game.defeated_elves = 0
          /\ \A q \in 3..(power - 1) : simulate(bytes, q).game.defeated_elves > 0
          /\ IF Len(probes) = 1
             THEN output[3] = <<"perfect game!">>
             ELSE /\ output[3] = Line("minimum power for perfect game", power)
                  /\ output[4] = Line("perfect checksum", probes[Len(probes)].checksum)

(* main reported a least power above 4 *)
C13_Witness ==
    /\ Done
    /\ Len(output) = 4
    /\ output[3][2] > 4

(* C14: when main reports a perfect game the Elves have won: the registry of   *)
(* the finished run holds an Elf and no Gnome, and no Elf was defeated.        *)
C14_PerfectGameIsElvenVictory ==
    Done =>
        /\ \E p \in DOMAIN board.units : board.units[p].team = Elf
        /\ \A p \in DOMAIN board.units : board.units[p].team # Gnome
        /\ defeated_elves = 0

(* C15: no step changes the bytes main read, and every finished run, whatever  *)
(* runs came before it, is the run of a game made anew of the bytes with the   *)
(* probe's power.                                                              *)
C15_ProbesAreFreshSimulations ==
    /\ [][bytes' = bytes]_vars
    /\ [](state = "Over" =>
            /\ simulate(bytes, power).state = "Over"
            /\ simulate(bytes, power).game = Game)

(* A probe has finished that was not the first, having lost an elf itself *)
C15_Witness ==
    /\ state = "Over"
    /\ Len(probes) >= 2
    /\ defeated_elves > 0
    /\ power > 4

-----------------------------------------------------------------------------
(* C16: whatever the order in which the registry and the open set yield their  *)
(* entries, the queue built is the sorted one, every call of progress leaves   *)
(* the one game and state that follow from the game before it, every iteration *)
(* of the search visits the entry least by (dist, point), and the search       *)
(* returns the one distance.                                                   *)
C16_SameRunWhateverTheHashOrder ==
    /\ QueueIsSortedUnits
    /\ [][(search' = None) =>
            /\ state' = progress(Game).state
            /\ Game' = progress(Game).game]_vars
    /\ [][IF search' = None THEN TRUE
          ELSE (search'[1].first # None) =>
                   search'[1].current = Some(MinOpen(search[1].open))]_vars
    /\ [](IF search = None THEN TRUE
          ELSE search[1].done =>
                   search[1].result =
                       distance_to_closest_unit(board, search[1].start, search[1].goal))

(* A search has returned a distance after an iteration in which the open set   *)
(* yielded another entry first than the one visited, in a round whose queue    *)
(* was built from keys not yielded least first.                                *)
C16_Witness ==
    /\ completed_turns >= 1
    /\ hashed # None
    /\ \E p \in round.start : PointLess(p, hashed[1])
    /\ search # None
    /\ search[1].done
    /\ search[1].result # None
    /\ search[1].first # None
    /\ search[1].first # search[1].current

-----------------------------------------------------------------------------
(* C17: with more elven power no more elves are defeated: the run of any       *)
(* greater power on the same map ends with at most as many defeated elves.     *)
C17_MorePowerNoMoreLosses ==
    (state = "Over") =>
        \A q \in BoostPowers :
            (q > power) => simulate(bytes, q).game.defeated_elves <= defeated_elves

(* C17 as amended: from power 200 on, the hp of a unit, every elven blow       *)
(* defeats, and the runs of two such powers end with the same count of         *)
(* defeated elves, the same rounds and the same units.                         *)
C17_SameLossesFromPower200 ==
    (state = "Over" /\ power >= 200) =>
        \A q \in BoostPowers :
            (q > power) =>
                /\ simulate(bytes, q).state = "Over"
                /\ simulate(bytes, q).game.defeated_elves = defeated_elves
                /\ simulate(bytes, q).game.completed_turns = completed_turns
                /\ DOMAIN simulate(bytes, q).game.board.units = DOMAIN board.units

(* A run with power 200 is Over after a round in which Gnomes were defeated,   *)
(* and 255 is a greater power to compare it with.                              *)
C17_Witness ==
    /\ state = "Over"
    /\ power = 200
    /\ 255 \in BoostPowers
    /\ completed_turns >= 1
    /\ \E p \in DOMAIN board.units : board.units[p].team = Elf /\ board.units[p].hp < 200

-----------------------------------------------------------------------------
-----------------------------------------------------------------------------
(* The widths of the rows of an input: the counts of bytes before each line    *)
(* break, and that of the bytes after the last one if there are any.           *)
RECURSIVE RowWidths(_, _, _)
RowWidths(bs, i, width) ==
    IF i > Len(bs) THEN (IF width > 0 THEN {width} ELSE {})
    ELSE IF bs[i] = "\n" THEN {width} \cup RowWidths(bs, i + 1, 0)
    ELSE RowWidths(bs, i + 1, width + 1)

RaggedRows(bs) == Cardinality(RowWidths(bs, 1, 0)) > 1

UnknownByte(bs) == \E i \in 1..Len(bs) : bs[i] \notin {".", "#", "G", "E", "\n"}

(* C20: the Game is not made, the parser having panicked, of an input with a   *)
(* byte other than the four tiles and the line break or with rows of           *)
(* different widths.                                                           *)
C20_MalformedMapRejected ==
    (state # "Read" /\ (UnknownByte(bytes) \/ RaggedRows(bytes))) => state = "Panic"

-----------------------------------------------------------------------------
(* The teams that have a unit on the starting map *)
Teams(bs) == {bs[i] : i \in 1..Len(bs)} \cap {Gnome, Elf}

LacksATeam(bs) == Teams(bs) # {Gnome, Elf}

(* C21: of a starting map without a unit of one of the two teams no game is    *)
(* run to its end and nothing is reported: no run is Over, no line is printed. *)
C21_OneTeamMapNeverSimulated ==
    LacksATeam(bytes) =>
        /\ state # "Over"
        /\ probes = <<>>
        /\ output = <<>>

-----------------------------------------------------------------------------
(* An input of H >= 1 rows of one width W, each ended by a line break, and of  *)
(* no byte but those of the tiles and the line break.                          *)
Width(bs) == (CHOOSE i \in 1..Len(bs) : bs[i] = "\n" /\ \A j \in 1..(i - 1) : bs[j] # "\n") - 1

Rectangular(bs) ==
    /\ bs # <<>>
    /\ bs[Len(bs)] = "\n"
    /\ ~UnknownByte(bs)
    /\ \A i \in 1..Len(bs) : (bs[i] = "\n") <=> (i % (Width(bs) + 1) = 0)

Height(bs) == Len(bs) \div (Width(bs) + 1)

(* The byte at column x of row y of a rectangular input *)
ByteAt(bs, x, y) == bs[y * (Width(bs) + 1) + x + 1]

(* C22: of a board parsed from H rows of width W, get returns the tile parsed  *)
(* at column x of row y for 0 <= x < W and 0 <= y < H, the last row included,  *)
(* and None for every other position.                                          *)
C22_GetReturnsParsedTile ==
    (state = "Going" /\ Rectangular(bytes)) =>
        \A x \in -1..Width(bytes), y \in -1..Height(bytes) :
            get(board, Point(x, y)) =
                IF x \in 0..(Width(bytes) - 1) /\ y \in 0..(Height(bytes) - 1)
                THEN Some(ByteAt(bytes, x, y))
                ELSE None

-----------------------------------------------------------------------------
(* Unit::take_damage called on a unit of any hp a unit can have, with any u8 *)

(* The hp a unit starts with *)
MaxHp == 200

(* The greatest u8, the type of the damage *)
MaxDamage == 255

(* take_damage(&mut unit, hp) is about to be called *)
Called(unit, hp) ==
    /\ bytes = <<>>
    /\ power = 3
    /\ board = [size |-> Point(0, 0), map |-> <<>>, units |-> <<>>]
    /\ to_be_moved = <<>>
    /\ completed_turns = 0
    /\ defeated_elves = 0
    /\ state = "Called"
    /\ turn = NoTurn
    /\ round = NewRound(<<>>)
    /\ prev_round = None
    /\ query = Some([unit |-> unit, hp |-> hp])
    /\ answer = None
    /\ output = <<>>
    /\ probes = <<>>
    /\ search = None
    /\ hashed = None

(* The call: answer is the unit afterwards *)
TakeDamage ==
    /\ state = "Called"
    /\ state' = "Returned"
    /\ answer' = Some(take_damage(query[1].unit, query[1].hp))
    /\ UNCHANGED <<bytes, power, board, to_be_moved, completed_turns, defeated_elves,
                   turn, round, prev_round, query, output, probes, search, hashed>>

DamageInit == \E hp \in 0..MaxHp, damage \in 0..MaxDamage : Called(Unit(Gnome, hp, 3), damage)

DamageNext == TakeDamage

DamageSpec == DamageInit /\ [][DamageNext]_vars

(* C26: take_damage leaves max(0, hp - damage): the unit's hp less the damage, *)
(* and exactly 0 when the damage is greater than the hp; team and attack stay. *)
C26_TakeDamageNeverWraps ==
    (state = "Returned") =>
        LET unit == query[1].unit
            damage == query[1].hp
        IN  /\ answer[1].hp = IF unit.hp - damage > 0 THEN unit.hp - damage ELSE 0
            /\ (damage > unit.hp) => answer[1].hp = 0
            /\ answer[1].hp <= unit.hp
            /\ answer[1].team = unit.team
            /\ answer[1].attack = unit.attack

(* A unit of full hp has taken the greatest damage *)
C26_Witness ==
    /\ state = "Returned"
    /\ query[1].unit.hp = MaxHp
    /\ query[1].hp = MaxDamage
    /\ answer[1].hp = 0

-----------------------------------------------------------------------------
(* The Board's pathfinder and move_unit, called on boards of few units: any    *)
(* call of distance_to_closest_unit, and move_unit as progress calls it, with  *)
(* the direction find_enemy_direction returned for the unit.                   *)

(* The most units on a board whose distances are measured *)
DistUnits == 2

(* The terrains of those boards: two caves apart, and a cave around a rock *)
DistTerrains == {
    << <<".", "#", ".", ".">>,
       <<".", "#", ".", ".">> >>,
    << <<".", ".", ".">>,
       <<".", "#", ".">>,
       <<".", ".", ".">> >>
}

DistMaps ==
    UNION {{Framed(Placed(rows, placement)) :
               placement \in UNION {[on -> {"G", "E"}] :
                   on \in {c \in SUBSET Cells(rows) : Cardinality(c) <= DistUnits}}} :
           rows \in DistTerrains}

(* The cells distance_to_closest_unit is called for when team goal is searched: *)
(* those on the board that are Empty or hold a unit of that team                *)
Starts(b, goal) ==
    {p \in AllPoints(b) : get(b, p)[1] = Empty \/ is_team(get(b, p)[1], goal)}

(* The Board made of the bytes and the arguments of a call about to be made *)
Pending(bs, g, start, goal) ==
    /\ bytes = bs
    /\ power = 3
    /\ board = g.board
    /\ to_be_moved = g.to_be_moved
    /\ completed_turns = g.completed_turns
    /\ defeated_elves = g.defeated_elves
    /\ state = "Going"
    /\ turn = NoTurn
    /\ round = NewRound(g.board.units)
    /\ prev_round = None
    /\ query = Some([start |-> start, goal |-> goal])
    /\ answer = None
    /\ output = <<>>
    /\ probes = <<>>
    /\ search = None
    /\ hashed = None

DistInit ==
    \E bs \in DistMaps, goal \in {Gnome, Elf} :
        \E start \in Starts(new_game(bs).board, goal) :
            Pending(bs, new_game(bs), start, goal)

BoardKept ==
    UNCHANGED <<bytes, power, to_be_moved, completed_turns, defeated_elves, state,
                round, prev_round, output, probes, search, hashed>>

(* The call of Board::distance_to_closest_unit: answer is Some(what it returned) *)
DistanceToClosestUnit ==
    /\ query # None
    /\ answer = None
    /\ answer' = Some(distance_to_closest_unit(board, query[1].start, query[1].goal))
    /\ UNCHANGED <<board, turn, query>>
    /\ BoardKept

(* Step 3 of progress for the unit at pos: move_unit with the direction        *)
(* find_enemy_direction returned; no call is pending on the board it leaves.   *)
MoveUnit(pos) ==
    /\ find_enemy_direction(board, pos) # None
    /\ move_unit(board, pos, find_enemy_direction(board, pos)[1]).ok
    /\ board' = move_unit(board, pos, find_enemy_direction(board, pos)[1]).board
    /\ turn' = [NoTurn EXCEPT !.pos = Some(pos),
                              !.dir = find_enemy_direction(board, pos),
                              !.moved_to = Some(step(pos, find_enemy_direction(board, pos)[1]))]
    /\ query' = None
    /\ answer' = None
    /\ BoardKept

DistNext ==
    \/ DistanceToClosestUnit
    \/ \E pos \in DOMAIN board.units : MoveUnit(pos)

DistSpec == DistInit /\ [][DistNext]_vars

(* The least number of steps over Empty cells from s to a cell with a unit of  *)
(* team goal orthogonally adjacent, s itself being such a cell or not.         *)
StepsToTeam(b, s, goal) ==
    StepsTo(b, s, {c \in EmptyCells(b) \cup {s} : EnemiesNextTo(b, c, enemy(goal)) # {}})

-----------------------------------------------------------------------------
(* Games followed turn by turn: the moves and attacks of progress, and the     *)
(* rounds' ends.                                                               *)
TurnMaps == {
    Framed(<< <<"G", ".", ".", "E">> >>),
    Framed(<< <<"G", "E", "G">> >>),
    Framed(<< <<"E", "G", ".", "E">> >>),
    Framed(<< <<"G", "E">> >>),
    Framed(<< <<"G", ".", "G">> >>),
    Framed(<< <<".", ".", "E", "G">>,
              <<"G", "G", ".", "E">> >>),
    Framed(<< <<"E", "E", ".">>,
              <<"G", ".", "G">> >>)
}

(* The elven powers of those games: Board::new's, and one that defeats at once *)
TurnPowers == {3, 200}

TurnInit == \E bs \in TurnMaps, pw \in TurnPowers : Construct(bs, pw)

TurnSpec == TurnInit /\ [][Next]_vars

(* The board of a progress step once its unit has moved, or has stayed *)
Moved ==
    IF turn'.dir = None THEN board
    ELSE move_unit(board, turn'.pos[1], turn'.dir[1]).board

(* C24: a move takes the acting unit, and no other, one cell in the direction  *)
(* found onto a cell that was Empty, leaves the cell it had Empty and the unit *)
(* its team, hp and attack; every other unit and tile is as before, and a step *)
(* that only moves changes nothing else of the game but the queue's end.       *)
C24_MoveRelocatesOnlyTheActingUnit ==
    [][(state' # "Panic" /\ turn'.dir # None) =>
        LET pos == turn'.pos[1]
            goal == turn'.moved_to[1]
        IN  /\ goal = step(pos, turn'.dir[1])
            /\ goal \in NeighborSet(pos)
            /\ get(board, goal) = Some(Empty)
            /\ get(Moved, pos) = Some(Empty)
            /\ get(Moved, goal) = get(board, pos)
            /\ DOMAIN Moved.units = (DOMAIN board.units \ {pos}) \cup {goal}
            /\ Moved.units[goal] = board.units[pos]
            /\ \A q \in DOMAIN board.units \ {pos} : Moved.units[q] = board.units[q]
            /\ \A p \in AllPoints(board) \ {pos, goal} : get(Moved, p) = get(board, p)
            /\ Moved.size = board.size
            /\ Len(Moved.map) = Len(board.map)
            /\ board'.units[goal] = board.units[pos]
            /\ get(board', pos) = Some(Empty)
            /\ defeated_elves' = defeated_elves + (IF turn'.defeated = None THEN 0
                                                   ELSE IF turn'.defeated[1].team = Elf THEN 1 ELSE 0)
            /\ (turn'.attacked = None) => board' = Moved
            /\ (turn'.attacked = None /\ Len(to_be_moved) > 1) =>
                   /\ completed_turns' = completed_turns
                   /\ to_be_moved' = SubSeq(to_be_moved, 1, Len(to_be_moved) - 1)
    ]_vars

(* A unit has moved and attacked no one, with units waiting and a unit that    *)
(* was hit before standing by                                                  *)
C24_Witness ==
    /\ state = "Going"
    /\ turn.dir # None
    /\ turn.attacked = None
    /\ to_be_moved # <<>>
    /\ round.took # <<>>
    /\ \E q \in DOMAIN board.units : board.units[q].hp < 200

(* C25: a unit that moves next to an enemy attacks in the same step: its       *)
(* target is the enemy of least (hp, point) among the neighbours of the cell   *)
(* it moved to, none of which is a neighbour of the cell it left.              *)
C25_MoveThenAttackFromNewPosition ==
    [][(state' = "Going" /\ turn'.dir # None) =>
        LET old == turn'.pos[1]
            me == turn'.moved_to[1]
            mine == board.units[old]
            foes == {q \in NeighborSet(me) \cap DOMAIN Moved.units :
                        Moved.units[q].team = enemy(mine.team)}
            low == {q \in foes : \A f \in foes : Moved.units[q].hp <= Moved.units[f].hp}
        IN  /\ me # old
            /\ EnemiesNextTo(board, old, mine.team) = {}
            /\ IF foes = {} THEN turn'.attacked = None /\ board' = Moved
               ELSE /\ turn'.attacked = Some(LeastPoint(low))
                    /\ turn'.attacked[1] \in NeighborSet(me) \ NeighborSet(old)
                    /\ IF Moved.units[turn'.attacked[1]].hp > mine.attack
                       THEN board'.units[turn'.attacked[1]].hp =
                                Moved.units[turn'.attacked[1]].hp - mine.attack
                       ELSE turn'.attacked[1] \notin DOMAIN board'.units
    ]_vars

(* A unit has moved next to an enemy and hit it in the same step *)
C25_Witness ==
    /\ state = "Going"
    /\ turn.dir # None
    /\ turn.attacked # None
    /\ turn.attacked[1] \in DOMAIN board.units
    /\ board.units[turn.attacked[1]].hp < 200
    /\ turn.attacked[1] \in NeighborSet(turn.moved_to[1])

(* C27: an attack is made on an enemy orthogonally adjacent to the attacker;   *)
(* it takes the attacker's attack from the target's hp, or removes the target  *)
(* and empties its tile when its hp is no more than that; the attacker, every  *)
(* other unit and every other tile are as they were when the attack began.     *)
C27_AttackChangesOnlyTheTarget ==
    [][(state' # "Panic" /\ turn'.attacked # None) =>
        LET me == turn'.moved_to[1]
            target == turn'.attacked[1]
            damage == Moved.units[me].attack
        IN  /\ target \in NeighborSet(me)
            /\ target \in DOMAIN Moved.units
            /\ Moved.units[target].team = enemy(Moved.units[me].team)
            /\ board'.size = Moved.size
            /\ IF Moved.units[target].hp > damage
               THEN /\ turn'.defeated = None
                    /\ board'.map = Moved.map
                    /\ board'.units = [Moved.units EXCEPT ![target].hp = @ - damage]
               ELSE /\ turn'.defeated # None
                    /\ board'.map = set(Moved, target, Empty).map
                    /\ board'.units = [q \in DOMAIN Moved.units \ {target} |-> Moved.units[q]]
            /\ board'.units[me] = Moved.units[me]
            /\ \A q \in DOMAIN Moved.units \ {target} :
                   q \in DOMAIN board'.units /\ board'.units[q] = Moved.units[q]
    ]_vars

(* An attack has defeated one of several enemies while units of both teams     *)
(* that were hit before stood by                                               *)
C27_Witness ==
    /\ state = "Going"
    /\ turn.defeated # None
    /\ \E q \in DOMAIN board.units \ {turn.moved_to[1]} :
          /\ board.units[q].team = board.units[turn.moved_to[1]].team
          /\ board.units[q].hp < 200
    /\ \E q \in DOMAIN board.units :
          /\ board.units[q].team # board.units[turn.moved_to[1]].team
          /\ board.units[q].hp < 200

(* The border cells of a rectangular input are all walls *)
WalledIn(bs) ==
    \A x \in 0..(Width(bs) - 1), y \in 0..(Height(bs) - 1) :
        (x \in {0, Width(bs) - 1} \/ y \in {0, Height(bs) - 1}) => ByteAt(bs, x, y) = "#"

(* C28: in the game of a rectangular map with walls all around and a unit on   *)
(* it, no call of progress panics: the queue is not popped empty, the popped   *)
(* position holds a unit, move_unit finds its goal Empty and on the board,     *)
(* attack finds its target, and the tiles agree with the teams.                *)
C28_NoPanicOnWalledMaps ==
    (Rectangular(bytes) /\ WalledIn(bytes) /\ Teams(bytes) # {}) => state # "Panic"

(* A unit waiting for its turn has just been defeated and its entry taken out  *)
(* of a queue in which two more units wait                                     *)
C28_Witness ==
    /\ state = "Going"
    /\ Rectangular(bytes) /\ WalledIn(bytes)
    /\ turn.defeated # None
    /\ turn.attacked[1] \in round.died_waiting
    /\ Len(to_be_moved) >= 2
    /\ turn.attacked[1] \notin Range(to_be_moved)

(* The Elves among the bytes of the starting map, and those of the registry *)
ElvesAtStart == Cardinality({i \in 1..Len(bytes) : bytes[i] = Elf})

ElvesAlive == Cardinality({p \in DOMAIN board.units : board.units[p].team = Elf})

(* C29: defeated_elves is the number of Elves of the starting map less the     *)
(* number of Elves in the registry; the defeat of a Gnome leaves it unchanged. *)
C29_DefeatedElvesCountsLostElves ==
    /\ [](state # "Panic" => defeated_elves = ElvesAtStart - ElvesAlive)
    /\ [][(turn'.defeated # None /\ turn'.defeated[1].team = Gnome) =>
            defeated_elves' = defeated_elves]_vars

(* An Elf and a Gnome have been defeated in one game *)
C29_Witness ==
    /\ defeated_elves >= 1
    /\ turn.defeated # None
    /\ turn.defeated[1].team = Gnome
    /\ ElvesAlive >= 1

(* Only units of one team are left on the board *)
OneTeamLeft(b) == \A p, q \in DOMAIN b.units : b.units[p].team = b.units[q].team

(* C30: when an attack defeats the last enemy and no entry is left in the      *)
(* queue but that of the defeated unit, the round is counted and the queue of  *)
(* the next round is built; when another unit is left in the queue the round   *)
(* is not counted; in both cases the step returns Going and the next step,     *)
(* which in the first case is the first of the next round, returns Over and    *)
(* counts no round.                                                            *)
C30_LastBlowEndsRound ==
    /\ [][(state' # "Panic" /\ turn'.defeated # None /\ OneTeamLeft(board')) =>
            /\ state' = "Going"
            /\ IF Range(to_be_moved) \subseteq {turn'.pos[1], turn'.attacked[1]}
               THEN /\ completed_turns' = completed_turns + 1
                    /\ to_be_moved' = sort_by_key_reverse(DOMAIN board'.units)
               ELSE /\ completed_turns' = completed_turns
                    /\ to_be_moved' =
                           SelectSeq(SubSeq(to_be_moved, 1, Len(to_be_moved) - 1),
                                     LAMBDA q : q # turn'.attacked[1])
                    /\ to_be_moved' # <<>>]_vars
    /\ [][(state = "Going" /\ OneTeamLeft(board)) =>
            /\ state' = "Over"
            /\ completed_turns' = completed_turns
            /\ board' = board]_vars

(* A game is Over whose last round was counted: its last blow defeated the     *)
(* last enemy, whose entry was the only one left in the queue                  *)
C30_Witness ==
    /\ state = "Over"
    /\ completed_turns >= 1
    /\ prev_round # None
    /\ prev_round[1].died_waiting # {}
    /\ round.took = <<>>
    /\ Len(to_be_moved) = Cardinality(DOMAIN board.units) - 1

(* The calls of progress that make_turn makes, counted: r is what the n-th     *)
(* call returned.                                                              *)
RECURSIVE MakeTurnCalls(_, _, _)
MakeTurnCalls(r, old, n) ==
    IF r.state # "Going" \/ r.game.completed_turns # old THEN n
    ELSE MakeTurnCalls(progress(r.game), old, n + 1)

(* C31: a call of progress that returns Going without completing the round    *)
(* leaves the queue shorter; one that completes it counts exactly one round    *)
(* and builds the queue of the living units. The turns taken in a round and    *)
(* the entries waiting are never more than the units living at its start, so   *)
(* make_turn, called at the start of a round, returns after no more calls of   *)
(* progress than that, and when it returns Going completed_turns is one more.  *)
C31_RoundEndsWithinItsUnits ==
    /\ [][state' = "Going" =>
            IF completed_turns' = completed_turns
            THEN /\ Len(to_be_moved') < Len(to_be_moved)
                 /\ to_be_moved' # <<>>
            ELSE /\ completed_turns' = completed_turns + 1
                 /\ to_be_moved' = sort_by_key_reverse(DOMAIN board'.units)
                 /\ round'.took = <<>>]_vars
    /\ [](state = "Going" =>
            Len(round.took) + Len(to_be_moved) <= Cardinality(round.start))
    /\ []((state = "Going" /\ round.took = <<>>) =>
            /\ round.start = DOMAIN board.units
            /\ MakeTurnCalls(progress(Game), completed_turns, 1)
                   <= Cardinality(DOMAIN board.units)
            /\ make_turn(Game).state = "Going" =>
                   make_turn(Game).game.completed_turns = completed_turns + 1
            /\ make_turn(Game).state = "Over" =>
                   make_turn(Game).game.completed_turns = completed_turns)

(* A round of three units or more has been completed in fewer turns than it    *)
(* had units at its start, one of them defeated while waiting, and units of    *)
(* both teams begin the next round                                             *)
C31_Witness ==
    /\ state = "Going"
    /\ round.took = <<>>
    /\ prev_round # None
    /\ Cardinality(prev_round[1].start) >= 3
    /\ Len(prev_round[1].took) < Cardinality(prev_round[1].start)
    /\ prev_round[1].died_waiting # {}
    /\ ~OneTeamLeft(board)

-----------------------------------------------------------------------------
(* Games no unit of which can come to blows: main's loop                       *)
(* `while let GameState::Going = game.make_turn() {}` calls progress for as    *)
(* long as it returns Going, so a call is always made in the end.              *)
StallMaps == {
    Framed(<< <<"G", "#", "E">> >>),
    Framed(<< <<"G", ".", "#", ".", "E">> >>),
    Framed(<< <<"G", "#">>,
              <<"#", "E">> >>),
    Framed(<< <<"G", "G", "#", "E">>,
              <<".", ".", "#", "E">> >>),
    Framed(<< <<"E", ".", "#", "G">>,
              <<"#", "#", "#", ".">>,
              <<"G", ".", ".", ".">> >>),
    Lines(<< <<"G", "#", "E">>,
             <<"#", "#", "#">> >>),
    Framed(<< <<"G", ".", ".", "E">> >>),
    Framed(<< <<"G", ".", "#", "E">>,
              <<".", ".", ".", ".">> >>)
}

StallInit == \E bs \in StallMaps : Construct(bs, 3)

(* main makes a call of progress whenever the last one returned Going, and a   *)
(* call always pops the queue or ends the game, so a Progress step can be      *)
(* taken exactly where Calling holds.                                          *)
Calling == state = "Going" /\ completed_turns < MaxRounds

(* Weak fairness of Progress, with Calling for its enabling condition: the     *)
(* loop does not stop between two calls.                                       *)
LoopRuns == []<>(~Calling) \/ []<><<Progress>>_vars

StallSpec == StallInit /\ [][Next]_vars /\ LoopRuns

(* The map as it is written: the parsed board with every row counted *)
MapRead == [with_elven_power(bytes, power) EXCEPT !.size = Point(Width(bytes), Height(bytes))]

(* Units of both teams, none next to an enemy, and no Empty cell next to an    *)
(* enemy within walking reach of any unit                                      *)
Stalemate(b) ==
    /\ \E p, q \in DOMAIN b.units : b.units[p].team # b.units[q].team
    /\ \A p \in DOMAIN b.units :
          /\ EnemiesNextTo(b, p, b.units[p].team) = {}
          /\ StepsTo(b, p, Targets(b, b.units[p].team)) = None

(* C32: on a map with units of both teams, none of them next to an enemy or    *)
(* within reach of a cell next to one, no call of progress returns Over or     *)
(* panics, none changes a unit or a tile or counts a defeat, a round is        *)
(* counted every time each unit has had its turn, and completed_turns gets as  *)
(* far as the games are followed.                                              *)
C32_StalemateRunsForEver ==
    /\ [](Stalemate(MapRead) =>
            /\ state = "Going"
            /\ board.units = MapRead.units
            /\ board.map = MapRead.map
            /\ defeated_elves = 0)
    /\ [][Stalemate(MapRead) =>
            /\ turn'.dir = None /\ turn'.attacked = None
            /\ completed_turns' =
                   IF Len(to_be_moved) = 1 THEN completed_turns + 1 ELSE completed_turns]_vars
    /\ Stalemate(MapRead) ~> (completed_turns = MaxRounds)

(* The last round followed has been counted for a game of three units or more  *)
(* in which a unit has an Empty cell to step on, and every unit has the hp it  *)
(* began with                                                                  *)
C32_Witness ==
    /\ Stalemate(MapRead)
    /\ completed_turns = MaxRounds
    /\ state = "Going"
    /\ Cardinality(DOMAIN board.units) >= 3
    /\ \E p \in DOMAIN board.units : NeighborSet(p) \cap EmptyCells(board) # {}
    /\ \A p \in DOMAIN board.units : board.units[p].hp = 200

-----------------------------------------------------------------------------
(* The unit that stands at q after a call of progress stood, before it, at the *)
(* cell the acting unit left if q is the cell it moved to, and at q otherwise. *)
StoodAt(q) == IF turn'.moved_to = Some(q) THEN turn'.pos[1] ELSE q

(* C33: in every run of main, the baseline and the probes, a unit is a Gnome   *)
(* with attack 3 or an Elf with the attack the run's game was constructed      *)
(* with, which is 3 in the baseline; every unit of a game just constructed has *)
(* hp 200; and a call of progress leaves every unit that is still on the board *)
(* its team and its attack.                                                    *)
C33_TeamAndAttackFixed ==
    /\ [](state # "Panic" =>
            \A p \in DOMAIN board.units :
                /\ board.units[p].team \in {Gnome, Elf}
                /\ board.units[p].attack = IF board.units[p].team = Gnome THEN 3 ELSE power)
    /\ [](probes = <<>> => power = 3)
    /\ []((state = "Going" /\ turn = NoTurn) =>
            /\ DOMAIN board.units =
                   {p \in {Point(x, y) : x \in 0..(Width(bytes) - 1),
                                         y \in 0..(Height(bytes) - 1)} :
                       ByteAt(bytes, p.x, p.y) \in {Gnome, Elf}}
            /\ \A p \in DOMAIN board.units :
                  /\ board.units[p].hp = 200
                  /\ board.units[p].team = ByteAt(bytes, p.x, p.y))
    /\ [][state = "Going" =>
            /\ power' = power
            /\ \A q \in DOMAIN board'.units :
                  /\ StoodAt(q) \in DOMAIN board.units
                  /\ board'.units[q].team = board.units[StoodAt(q)].team
                  /\ board'.units[q].attack = board.units[StoodAt(q)].attack]_vars

(* In a probe with a power above Board::new's a unit has just moved, and an    *)
(* Elf and a Gnome that were hit before are on the board                       *)
C33_Witness ==
    /\ state = "Going"
    /\ probes # <<>>
    /\ power > 3
    /\ turn.dir # None
    /\ \E p, q \in DOMAIN board.units :
          /\ board.units[p].team = Elf /\ board.units[p].hp < 200
          /\ board.units[p].attack = power
          /\ board.units[q].team = Gnome /\ board.units[q].hp < 200
          /\ board.units[q].attack = 3

-----------------------------------------------------------------------------
(* main's search for the least power, each run of a game taken in one step *)

(* A cave packed with Gnomes around one Elf *)
Crowd ==
    Framed(<< <<"G", "G", "G", "G", "G", "G">>,
              <<"G", "G", "E", "G", "G", "G">>,
              <<"G", "G", "G", "G", "G", "G">>,
              <<"G", "G", "G", "G", "G", "G">> >>)

ProbeMaps == {
    Crowd,
    Framed(<< <<".", ".", "E", "G">>,
              <<"G", "G", ".", "E">> >>),
    Framed(<< <<"E", ".", "G">> >>)
}

ProbeInit == \E bs \in ProbeMaps : Construct(bs, 3)

(* The most runs of a search that are followed: the baseline, the probes with  *)
(* the powers 4 to 255, and none after the counter has wrapped                 *)
MaxProbes == 253

(* The variables once the loop over make_turn has come to r *)
Ran(r) ==
    /\ state' = r.state
    /\ board' = r.game.board
    /\ to_be_moved' = r.game.to_be_moved
    /\ completed_turns' = r.game.completed_turns
    /\ defeated_elves' = r.game.defeated_elves
    /\ turn' = r.turn
    /\ round' = NewRound(r.game.board.units)
    /\ prev_round' = None
    /\ query' = None
    /\ answer' = None

(* `while let GameState::Going = game.make_turn() {}`, of the baseline or of a *)
(* probe, from the game just constructed to the end of its run                 *)
RunGame ==
    /\ state = "Going"
    /\ turn = NoTurn
    /\ Len(probes) < MaxProbes
    /\ Ran(run_from([state |-> "Going", game |-> Game, turn |-> NoTurn]))
    /\ UNCHANGED <<bytes, power, output, probes, search, hashed>>

ProbeNext == RunGame \/ ReportBaseline \/ EndProbe

ProbeSpec == ProbeInit /\ [][ProbeNext]_vars

(* C34: on a rectangular, walled map with units of both teams main's search    *)
(* does not panic, every probe has the power after that of the probe before    *)
(* it, from 4 on, and no run with power 255 loses an Elf: the search ends at a *)
(* power of 4..=255 and the counter is never stepped past 255.                 *)
C34_SearchEndsBeforeOverflow ==
    (Rectangular(bytes) /\ WalledIn(bytes) /\ Teams(bytes) = {Gnome, Elf}) =>
        /\ state # "Panic"
        /\ \A i \in 1..Len(probes) :
              /\ probes[i].power = i + 2
              /\ probes[i].power = 255 => probes[i].defeated_elves = 0

-----------------------------------------------------------------------------
(* Point's derived ordering and Point::neighbors, called on the points of a    *)
(* board: coordinates from 0 on, far from the ends of i16.                     *)

(* The greatest coordinate of a point the functions are called on *)
MaxCoord == 3

BoardPoints == {Point(x, y) : x \in 0..MaxCoord, y \in 0..MaxCoord}

(* #[derive(Ord)] on struct Point { y, x }: Ord::cmp compares the fields in    *)
(* the order they are declared in, y and then x.                               *)
cmp(p, q) ==
    IF p.y # q.y THEN (IF p.y < q.y THEN "Less" ELSE "Greater")
    ELSE IF p.x # q.x THEN (IF p.x < q.x THEN "Less" ELSE "Greater")
    ELSE "Equal"

(* A call of `call` is about to be made on the points p and q *)
PointCall(call, p, q) ==
    /\ bytes = <<>>
    /\ power = 3
    /\ board = [size |-> Point(0, 0), map |-> <<>>, units |-> <<>>]
    /\ to_be_moved = <<>>
    /\ completed_turns = 0
    /\ defeated_elves = 0
    /\ state = "Called"
    /\ turn = NoTurn
    /\ round = NewRound(<<>>)
    /\ prev_round = None
    /\ query = Some([call |-> call, p |-> p, q |-> q])
    /\ answer = None
    /\ output = <<>>
    /\ probes = <<>>
    /\ search = None
    /\ hashed = None

PointInit ==
    \E call \in {"cmp", "neighbors"}, p \in BoardPoints, q \in BoardPoints :
        PointCall(call, p, q)

PointKept ==
    UNCHANGED <<bytes, power, board, to_be_moved, completed_turns, defeated_elves,
                turn, round, prev_round, query, output, probes, search, hashed>>

(* p.cmp(&q) *)
Cmp ==
    /\ state = "Called"
    /\ query[1].call = "cmp"
    /\ state' = "Returned"
    /\ answer' = Some(cmp(query[1].p, query[1].q))
    /\ PointKept

(* p.neighbors().collect(): the points the iterator yields, in order *)
Neighbors ==
    /\ state = "Called"
    /\ query[1].call = "neighbors"
    /\ state' = "Returned"
    /\ answer' = Some(neighbors(query[1].p))
    /\ PointKept

PointNext == Cmp \/ Neighbors

PointSpec == PointInit /\ [][PointNext]_vars

(* The place of a cell in the reading of a map: rows from the top, each row    *)
(* from the left; the rows are taken a column wider on either side than the    *)
(* board, for the neighbours that lie off it.                                  *)
ReadingIndex(p) == (p.y * (MaxCoord + 3)) + p.x + 1

(* C35: cmp orders the points as the map is read, rows first and then columns, *)
(* and the order is total: p and q are Equal only when they are the same, q is *)
(* Greater than p exactly when p is Less than q, and Less is transitive. The   *)
(* neighbours of p come out as the four cells one step from p, each Less than  *)
(* the next, so of any of them the one yielded first is the reading-order      *)
(* least.                                                                      *)
C35_NeighborsInReadingOrder ==
    (state = "Returned") =>
        LET p == query[1].p
            q == query[1].q
        IN  IF query[1].call = "cmp"
            THEN /\ (answer[1] = "Less") <=> (p.y < q.y \/ (p.y = q.y /\ p.x < q.x))
                 /\ (answer[1] = "Less") <=> (ReadingIndex(p) < ReadingIndex(q))
                 /\ (answer[1] = "Less") <=> PointLess(p, q)
                 /\ (answer[1] = "Equal") <=> (p = q)
                 /\ (answer[1] = "Greater") <=> (cmp(q, p) = "Less")
                 /\ \A r \in BoardPoints :
                       (answer[1] = "Less" /\ cmp(q, r) = "Less") => cmp(p, r) = "Less"
            ELSE /\ Len(answer[1]) = 4
                 /\ \A i \in 1..4 : answer[1][i] = step(p, directions[i])
                 /\ Range(answer[1]) =
                        {n \in {Point(x, y) : x \in (p.x - 1)..(p.x + 1),
                                              y \in (p.y - 1)..(p.y + 1)} :
                            (n.x = p.x) # (n.y = p.y)}
                 /\ \A i \in 1..3 :
                       /\ cmp(answer[1][i], answer[1][i + 1]) = "Less"
                       /\ ReadingIndex(answer[1][i]) < ReadingIndex(answer[1][i + 1])
                 /\ \A kept \in SUBSET (1..4) \ {{}} :
                       LET first == CHOOSE i \in kept : \A j \in kept : i <= j
                       IN  answer[1][first] = LeastPoint({answer[1][i] : i \in kept})

(* The neighbours of a point on the board's upper left corner, two of them off *)
(* the board, have been listed                                                 *)
C35_Witness ==
    /\ state = "Returned"
    /\ query[1].call = "neighbors"
    /\ query[1].p = Point(0, 0)
    /\ answer[1] = <<Point(0, -1), Point(-1, 0), Point(1, 0), Point(0, 1)>>

====
